---- MODULE Spec2Model ----
(***************************************************************************)
(* A model of chisel-json: the lexer (src/src/lexer.rs), the JSON pointer  *)
(* (src/src/pointer.rs) and the two front-ends built on them, the DOM      *)
(* parser (src/src/dom.rs) and the SAX parser (src/src/sax.rs).            *)
(*                                                                         *)
(* Scalars (Rust char) are one-character strings; a text (String,          *)
(* Vec<char>) is a sequence of scalars.                                    *)
(***************************************************************************)
EXTENDS Integers, Sequences, FiniteSets, TLC

VARIABLES
    input,          \* the scalars the char iterator yields, in order
    mixed_numerics, \* the cargo feature "mixed_numerics"
    mode,           \* "pair": dom then sax, callback never fails; "cancel": sax, callback may fail
    phase,          \* "dom" | "sax" | "done"
    dlex,           \* the Lexer of the DOM parse
    dstack,         \* the active parse_object / parse_array calls of the DOM parse
    dres,           \* the result of dom::Parser::parse_str: its status and error
    dvalue,         \* the JsonValue of an Ok result
    slex,           \* the Lexer of the SAX parse
    sstack,         \* the active parse_object / parse_array calls of the SAX parse
    pointer,        \* the JsonPointer owned by sax::Parser::parse
    events,         \* the events delivered to the callback so far, in order
    sres,           \* the result of sax::Parser::parse_str: its status and error
    ptr,            \* a JsonPointer driven directly through its public operations
    ptrlog,         \* the operations applied to ptr, in order
    lex,            \* a Lexer driven directly through consume
    toks,           \* the results of the consume calls on lex, in order
    rhs,            \* the right operand of a concatenation of JsonPointers
    scanner,        \* a Scanner driven directly through its public operations
    scanned         \* the calls made on scanner and their results, in order

vars == <<input, mixed_numerics, mode, phase, dlex, dstack, dres, dvalue, slex,
          sstack, pointer, events, sres, ptr, ptrlog, lex, toks, rhs, scanner, scanned>>

-----------------------------------------------------------------------------
(* Scalars and their classes                                               *)

NoChar == "none"

DigitSeq == <<"0", "1", "2", "3", "4", "5", "6", "7", "8", "9">>

AsciiDigit == {DigitSeq[i] : i \in 1..10}

NonZeroDigit == AsciiDigit \ {"0"}

\* char::is_ascii_whitespace: U+0020, U+0009, U+000A, U+000C, U+000D
AsciiWhitespace == {" ", "\t", "\n", "\f", "\r"}

\* char::is_ascii_hexdigit
AsciiHexDigit == AsciiDigit \cup {"a", "b", "c", "d", "e", "f", "A", "B", "C", "D", "E", "F"}

Last(s) == s[Len(s)]

Front(s) == SubSeq(s, 1, Len(s) - 1)

-----------------------------------------------------------------------------
(* Coords (src/src/coords.rs)                                              *)

DefaultCoords == [absolute |-> 0, line |-> 1, column |-> 0]

Inc(c, newline) ==
    IF newline
    THEN [absolute |-> c.absolute + 1, line |-> c.line + 1, column |-> 1]
    ELSE [absolute |-> c.absolute + 1, line |-> c.line, column |-> c.column + 1]

\* Coords::inc_n is called by the lexer but is not in coords.rs: a bulk
\* advance without a newline
IncN(c, n) == [absolute |-> c.absolute + n, line |-> c.line, column |-> c.column + n]

MkSpan(s, e) == [start |-> s, end |-> e]

-----------------------------------------------------------------------------
(* Tokens, errors and the result of Lexer::consume                         *)

NoTok == [t |-> "None", s |-> <<>>, n |-> 0, e |-> 0, b |-> FALSE]

Tok(t) == [NoTok EXCEPT !.t = t]

StrTok(s) == [NoTok EXCEPT !.t = "Str", !.s = s]

BoolTok(b) == [NoTok EXCEPT !.t = "Boolean", !.b = b]

NumTok(t, v) == [NoTok EXCEPT !.t = t, !.n = v.n, !.e = v.e]

NoErr == [source |-> "None", details |-> "None", expected |-> <<>>, frag |-> <<>>,
          tok |-> NoTok, coords |-> DefaultCoords, hasCoords |-> FALSE]

\* lexer_error!(details, coords)
LexerError(details, frag, coords) ==
    [NoErr EXCEPT !.source = "Lexer", !.details = details, !.frag = frag,
                  !.coords = coords, !.hasCoords = TRUE]

NoSpan == MkSpan(DefaultCoords, DefaultCoords)

\* Ok(packed token) of consume and of the matchers
RTok(lx, tok, start, end) ==
    [kind |-> "tok", tok |-> tok, span |-> MkSpan(start, end), err |-> NoErr, lx |-> lx]

\* Err(error) of consume and of the matchers
RErr(lx, err) ==
    [kind |-> "err", tok |-> NoTok, span |-> NoSpan, err |-> err, lx |-> lx]

\* a panic: unwrap() on the Err of a numeric parser
RPanic(lx) ==
    [kind |-> "panic", tok |-> NoTok, span |-> NoSpan, err |-> NoErr, lx |-> lx]

\* Ok / Err of the helpers that return ParserResult<()> or ParserResult<bool>
HOk(lx, flag) == [ok |-> TRUE, flag |-> flag, err |-> NoErr, lx |-> lx]

HErr(lx, err) == [ok |-> FALSE, flag |-> FALSE, err |-> err, lx |-> lx]

-----------------------------------------------------------------------------
(* Lexer (src/src/lexer.rs)                                                *)

\* Lexer::new.  pos is the number of scalars taken from the char iterator;
\* calls counts the consume calls made on the lexer (a history field)
NewLexer ==
    [pos |-> 0, pushback |-> NoChar, coords |-> DefaultCoords, buffer |-> <<>>, calls |-> 0]

\* a next_char that pulls from the char iterator before it looks at the slot
NextCharIteratorFirst(lx) ==
    IF lx.pos < Len(input)
    THEN [ok |-> TRUE, c |-> input[lx.pos + 1], lx |-> [lx EXCEPT !.pos = @ + 1]]
    ELSE IF lx.pushback # NoChar
    THEN [ok |-> TRUE, c |-> lx.pushback, lx |-> [lx EXCEPT !.pushback = NoChar]]
    ELSE [ok |-> FALSE, c |-> NoChar, lx |-> lx]

\* Lexer::next_char: the push-back slot first, then the char iterator
NextChar(lx) ==
    IF lx.pushback # NoChar
    THEN [ok |-> TRUE, c |-> lx.pushback, lx |-> [lx EXCEPT !.pushback = NoChar]]
    ELSE IF lx.pos < Len(input)
         THEN [ok |-> TRUE, c |-> input[lx.pos + 1], lx |-> [lx EXCEPT !.pos = @ + 1]]
         ELSE [ok |-> FALSE, c |-> NoChar, lx |-> lx]

\* self.coords.inc(c == '\n' || c == '\r') for the char of the result r of
\* next_char
Stepped(r) == [r.lx EXCEPT !.coords = Inc(@, r.c = "\n" \/ r.c = "\r")]

RECURSIVE Advance(_, _)
RECURSIVE AdvanceChar(_, _, _)
\* an advance whose EndOfInput error carries the default coords
AdvanceCharDefaultCoords(lx, r, skip_whitespace) ==
    IF ~r.ok
    THEN HErr(lx, LexerError("EndOfInput", <<>>, DefaultCoords))
    ELSE IF skip_whitespace /\ r.c \in AsciiWhitespace
    THEN Advance(Stepped(r), skip_whitespace)
    ELSE HOk([Stepped(r) EXCEPT !.buffer = Append(@, r.c)], TRUE)

\* an advance that moves the coordinates on when the input has ended
AdvanceCharEndMoves(lx, r, skip_whitespace) ==
    IF ~r.ok
    THEN HErr([lx EXCEPT !.coords = Inc(@, FALSE)], LexerError("EndOfInput", <<>>, lx.coords))
    ELSE IF skip_whitespace /\ r.c \in AsciiWhitespace
    THEN Advance(Stepped(r), skip_whitespace)
    ELSE HOk([Stepped(r) EXCEPT !.buffer = Append(@, r.c)], TRUE)

\* an advance that skips whitespace whether or not it is asked to
AdvanceCharSkipsSpace(lx, r, skip_whitespace) ==
    IF ~r.ok
    THEN HErr(lx, LexerError("EndOfInput", <<>>, lx.coords))
    ELSE IF r.c \in AsciiWhitespace
    THEN Advance(Stepped(r), skip_whitespace)
    ELSE HOk([Stepped(r) EXCEPT !.buffer = Append(@, r.c)], TRUE)

\* Lexer::advance, from the result r of next_char on
AdvanceChar(lx, r, skip_whitespace) ==
    IF ~r.ok
    THEN HErr(lx, LexerError("EndOfInput", <<>>, lx.coords))
    ELSE IF skip_whitespace /\ r.c \in AsciiWhitespace
    THEN Advance(Stepped(r), skip_whitespace)
    ELSE HOk([Stepped(r) EXCEPT !.buffer = Append(@, r.c)], TRUE)

\* Lexer::advance
Advance(lx, skip_whitespace) == AdvanceChar(lx, NextChar(lx), skip_whitespace)

RECURSIVE AdvanceN(_, _, _)
RECURSIVE AdvanceNext(_, _, _)
\* Lexer::advance_n, from the result a of one advance on
AdvanceNext(a, n, skip_whitespace) ==
    IF a.ok THEN AdvanceN(a.lx, n - 1, skip_whitespace) ELSE a

\* Lexer::advance_n
AdvanceN(lx, n, skip_whitespace) ==
    IF n = 0
    THEN HOk(lx, TRUE)
    ELSE AdvanceNext(Advance(lx, skip_whitespace), n, skip_whitespace)

\* a pushback that moves the coordinates back by two scalars
PushbackFar(lx, newline) ==
    IF lx.buffer # <<>>
    THEN [lx EXCEPT !.pushback = Last(lx.buffer),
                    !.buffer = Front(lx.buffer),
                    !.coords = [absolute |-> @.absolute - 2,
                                line |-> IF newline THEN @.line - 1 ELSE @.line,
                                column |-> @.column - 1]]
    ELSE [lx EXCEPT !.pushback = NoChar]

\* Lexer::pushback
Pushback(lx, newline) ==
    IF lx.buffer # <<>>
    THEN [lx EXCEPT !.pushback = Last(lx.buffer),
                    !.buffer = Front(lx.buffer),
                    !.coords = [absolute |-> @.absolute - 1,
                                line |-> IF newline THEN @.line - 1 ELSE @.line,
                                column |-> @.column - 1]]
    ELSE [lx EXCEPT !.pushback = NoChar]

\* a buffer_to_string that trims the delimiting quotes of a string
BufferToStringTrimmed(lx) ==
    IF Len(lx.buffer) >= 2 /\ lx.buffer[1] = "\"" /\ Last(lx.buffer) = "\""
    THEN SubSeq(lx.buffer, 2, Len(lx.buffer) - 1)
    ELSE lx.buffer

\* Lexer::buffer_to_string
BufferToString(lx) == lx.buffer

-----------------------------------------------------------------------------
(* The numeric parsers the lexer hands an accepted fragment to.  A number  *)
(* is the pair (n, e) standing for n * 10^e.                               *)

RECURSIVE DigitRun(_, _)
\* the number of consecutive ASCII digits of s from index i on
DigitRun(s, i) ==
    IF i <= Len(s) /\ s[i] \in AsciiDigit THEN 1 + DigitRun(s, i + 1) ELSE 0

DigitVal(c) == (CHOOSE i \in 1..10 : DigitSeq[i] = c) - 1

RECURSIVE DigitsValue(_)
DigitsValue(ds) ==
    IF ds = <<>> THEN 0 ELSE 10 * DigitsValue(Front(ds)) + DigitVal(Last(ds))

RECURSIVE Normalise(_, _)
\* two decimal forms denote the same f64 when they denote the same number
Normalise(m, e) ==
    IF m = 0 THEN [n |-> 0, e |-> 0]
    ELSE IF m % 10 = 0 THEN Normalise(m \div 10, e + 1)
    ELSE [n |-> m, e |-> e]

\* the Err of a numeric parser
NotANumber == [ok |-> FALSE, v |-> [n |-> 0, e |-> 0]]

\* the signed value of the digits of text from i0 to i1 - 1 and of the nf
\* digits after the "." at i1
Mantissa(text, i0, i1, nf) ==
    (IF text[1] = "-" THEN 0 - 1 ELSE 1)
    * DigitsValue(SubSeq(text, i0, i1 - 1) \o SubSeq(text, i1 + 1, i1 + nf))

\* the signed value of the ne exponent digits of text from i4 on
Exponent(text, i4, ne) ==
    (IF text[i4 - 1] = "-" THEN 0 - 1 ELSE 1) * DigitsValue(SubSeq(text, i4, i4 + ne - 1))

\* fast_float::parse, from the exponent digits on: at least one, and nothing
\* after them
FastFloatEnd(text, i0, i1, nf, i4, ne) ==
    IF ne >= 1 /\ i4 + ne = Len(text) + 1
    THEN [ok |-> TRUE,
          v |-> Normalise(Mantissa(text, i0, i1, nf), Exponent(text, i4, ne) - nf)]
    ELSE NotANumber

\* fast_float::parse, after the integer and the fraction digits, which end
\* before i2: at least one digit, then the end or (e|E) [+|-] digits
FastFloatExponent(text, i0, i1, nf, i2) ==
    IF (i1 - i0) + nf < 1 THEN NotANumber
    ELSE IF i2 = Len(text) + 1
    THEN [ok |-> TRUE, v |-> Normalise(Mantissa(text, i0, i1, nf), 0 - nf)]
    ELSE IF i2 <= Len(text) /\ text[i2] \in {"e", "E"}
    THEN IF i2 + 1 <= Len(text) /\ text[i2 + 1] \in {"+", "-"}
         THEN FastFloatEnd(text, i0, i1, nf, i2 + 2, DigitRun(text, i2 + 2))
         ELSE FastFloatEnd(text, i0, i1, nf, i2 + 1, DigitRun(text, i2 + 1))
    ELSE NotANumber

\* fast_float::parse, after the integer digits, which end before i1
FastFloatFraction(text, i0, i1) ==
    IF i1 <= Len(text) /\ text[i1] = "."
    THEN FastFloatExponent(text, i0, i1, DigitRun(text, i1 + 1),
                           i1 + 1 + DigitRun(text, i1 + 1))
    ELSE FastFloatExponent(text, i0, i1, 0, i1)

\* fast_float::parse, after the sign: the digits start at i0
FastFloatInteger(text, i0) == FastFloatFraction(text, i0, i0 + DigitRun(text, i0))

\* fast_float::parse::<f64>: [-] digits [. digits] [(e|E) [+|-] digits], with
\* at least one digit before the exponent, and nothing left over
FastFloatParse(text) ==
    FastFloatInteger(text, IF text # <<>> /\ text[1] = "-" THEN 2 ELSE 1)

\* the digits of i64::MAX and of the magnitude of i64::MIN
I64_MAX_DIGITS ==
    <<"9", "2", "2", "3", "3", "7", "2", "0", "3", "6", "8", "5", "4", "7", "7", "5",
      "8", "0", "7">>

I64_MIN_DIGITS == [I64_MAX_DIGITS EXCEPT ![Len(I64_MAX_DIGITS)] = "8"]

RECURSIVE DigitsGreater(_, _)
\* a > b, for two digit sequences of the same length
DigitsGreater(a, b) ==
    IF a = <<>> THEN FALSE
    ELSE IF a[1] = b[1] THEN DigitsGreater(Tail(a), Tail(b))
    ELSE DigitVal(a[1]) > DigitVal(b[1])

\* the nd digits of text from i0 on, which have no leading zero, denote a
\* number outside the range of i64
OutsideI64(text, i0, nd) ==
    \/ nd > Len(I64_MAX_DIGITS)
    \/ /\ nd = Len(I64_MAX_DIGITS)
       /\ DigitsGreater(SubSeq(text, i0, i0 + nd - 1),
                        IF text[1] = "-" THEN I64_MIN_DIGITS ELSE I64_MAX_DIGITS)

\* lexical::parse, after the sign: nd digits from i0 on and nothing else, and
\* a value an i64 holds
LexicalDigits(text, i0, nd) ==
    IF nd >= 1 /\ i0 + nd = Len(text) + 1 /\ ~OutsideI64(text, i0, nd)
    THEN [ok |-> TRUE,
          v |-> [n |-> (IF text[1] = "-" THEN 0 - 1 ELSE 1)
                       * DigitsValue(SubSeq(text, i0, i0 + nd - 1)),
                 e |-> 0]]
    ELSE NotANumber

\* lexical::parse, after the sign: the digits start at i0
LexicalInteger(text, i0) == LexicalDigits(text, i0, DigitRun(text, i0))

\* lexical::parse::<i64>: [+|-] digits, and nothing else
LexicalParse(text) ==
    LexicalInteger(text, IF text # <<>> /\ text[1] \in {"-", "+"} THEN 2 ELSE 1)

\* Ok(packed_token!(..)) for the value p of a numeric parser; unwrap() panics
\* on its Err
NumericToken(lx, p, t, start_coords, end_coords) ==
    IF p.ok THEN RTok(lx, NumTok(t, p.v), start_coords, end_coords) ELSE RPanic(lx)

\* Lexer::parse_numeric, in both of its feature variants
ParseNumeric(lx, integral, start_coords, end_coords) ==
    IF mixed_numerics /\ integral
    THEN NumericToken(lx, LexicalParse(lx.buffer), "Integer", start_coords, end_coords)
    ELSE NumericToken(lx, FastFloatParse(lx.buffer), "Float", start_coords, end_coords)

-----------------------------------------------------------------------------
(* The matchers                                                            *)

\* an escape suffix set without the solidus
EscapeSuffixNoSolidus == {"n", "t", "r", "\\", "b", "f", "\""}

\* match_escape_non_unicode_suffix!
EscapeNonUnicodeSuffix == {"n", "t", "r", "\\", "/", "b", "f", "\""}

NumericTerminator == {"]", "}", ","}

NULL_PATTERN == <<"n", "u", "l", "l">>

TRUE_PATTERN == <<"t", "r", "u", "e">>

FALSE_PATTERN == <<"f", "a", "l", "s", "e">>

\* a hex digit check that looks at the last three scalars only
BadHexDigitsOfThree(lx) ==
    {i \in 1..3 : lx.buffer[Len(lx.buffer) - i + 1] \notin AsciiHexDigit}

\* the i of 1..=4 for which buffer[buffer.len() - i] is no hex digit
BadHexDigits(lx) ==
    {i \in 1..4 : lx.buffer[Len(lx.buffer) - i + 1] \notin AsciiHexDigit}

\* Lexer::check_unicode_sequence, from the result a of advance_n(4, false) on
CheckUnicodeDigits(a, adjusted_coords) ==
    IF ~a.ok THEN a
    ELSE IF BadHexDigits(a.lx) = {} THEN HOk(a.lx, TRUE)
    ELSE HErr(a.lx,
              LexerError("InvalidUnicodeEscapeSequence", BufferToString(a.lx),
                         IncN(adjusted_coords,
                              (CHOOSE j \in BadHexDigits(a.lx) :
                                  \A k \in BadHexDigits(a.lx) : j <= k) - 1)))

\* Lexer::check_unicode_sequence
CheckUnicodeSequence(lx) == CheckUnicodeDigits(AdvanceN(lx, 4, FALSE), lx.coords)

RECURSIVE MatchStringLoop(_, _)
RECURSIVE MatchStringChar(_, _)
RECURSIVE MatchStringEscape(_, _)
RECURSIVE MatchStringUnicode(_, _)

\* Lexer::match_string, from the result u of check_unicode_sequence on
MatchStringUnicode(u, adjusted_coords) ==
    IF u.ok THEN MatchStringLoop(u.lx, adjusted_coords) ELSE RErr(u.lx, u.err)

\* a match_string that ends the string at a quote even after a "\"
MatchStringEscapeQuoteEnds(a, adjusted_coords) ==
    IF ~a.ok THEN RErr(a.lx, LexerError(a.err.details, <<>>, a.err.coords))
    ELSE IF Last(a.lx.buffer) = "\""
    THEN RTok(a.lx, StrTok(BufferToString(a.lx)), adjusted_coords, a.lx.coords)
    ELSE IF Last(a.lx.buffer) \in EscapeNonUnicodeSuffix
    THEN MatchStringLoop(a.lx, adjusted_coords)
    ELSE IF Last(a.lx.buffer) = "u"
    THEN MatchStringUnicode(CheckUnicodeSequence(a.lx), adjusted_coords)
    ELSE RErr(a.lx, LexerError("InvalidEscapeSequence", BufferToString(a.lx),
                               IncN(adjusted_coords, 2)))

\* Lexer::match_string, from the result a of the advance after a "\" on
MatchStringEscape(a, adjusted_coords) ==
    IF ~a.ok THEN RErr(a.lx, LexerError(a.err.details, <<>>, a.err.coords))
    ELSE IF Last(a.lx.buffer) \in EscapeNonUnicodeSuffix
    THEN MatchStringLoop(a.lx, adjusted_coords)
    ELSE IF Last(a.lx.buffer) = "u"
    THEN MatchStringUnicode(CheckUnicodeSequence(a.lx), adjusted_coords)
    ELSE RErr(a.lx, LexerError("InvalidEscapeSequence", BufferToString(a.lx),
                               IncN(adjusted_coords, 2)))

\* Lexer::match_string, from the result a of the advance of an iteration on
MatchStringChar(a, adjusted_coords) ==
    IF ~a.ok THEN RErr(a.lx, LexerError(a.err.details, <<>>, a.err.coords))
    ELSE IF Last(a.lx.buffer) = "\\"
    THEN MatchStringEscape(Advance(a.lx, FALSE), adjusted_coords)
    ELSE IF Last(a.lx.buffer) = "\""
    THEN RTok(a.lx, StrTok(BufferToString(a.lx)), adjusted_coords, a.lx.coords)
    ELSE MatchStringLoop(a.lx, adjusted_coords)

\* the loop of Lexer::match_string
MatchStringLoop(lx, adjusted_coords) == MatchStringChar(Advance(lx, FALSE), adjusted_coords)

\* Lexer::match_string
MatchString(lx) == MatchStringLoop(lx, lx.coords)

\* Lexer::check_following_exponent, from the result a of advance on
CheckExponentSign(a) ==
    IF ~a.ok THEN a
    ELSE IF Last(a.lx.buffer) \in {"+", "-"} THEN HOk(a.lx, TRUE)
    ELSE HErr(a.lx, LexerError("InvalidNumericRepresentation",
                               BufferToString(a.lx), a.lx.coords))

\* Lexer::check_following_exponent
CheckFollowingExponent(lx) == CheckExponentSign(Advance(lx, FALSE))

\* a check_following_zero that leaves a digit after the zero to the number loop
CheckFollowingZeroLax(lx) ==
    IF lx.buffer[2] = "." THEN HOk(lx, FALSE)
    ELSE IF lx.buffer[2] = "\n" THEN HOk(Pushback(lx, TRUE), TRUE)
    ELSE HOk(Pushback(lx, FALSE), TRUE)

\* Lexer::check_following_zero
CheckFollowingZero(lx) ==
    IF lx.buffer[2] = "." THEN HOk(lx, FALSE)
    ELSE IF lx.buffer[2] \in AsciiDigit
    THEN HErr(lx, LexerError("InvalidNumericRepresentation", BufferToString(lx), lx.coords))
    ELSE IF lx.buffer[2] = "\n" THEN HOk(Pushback(lx, TRUE), TRUE)
    ELSE HOk(Pushback(lx, FALSE), TRUE)

\* Lexer::check_following_minus, from the result a of the advance after "-0" on
CheckMinusZero(a) ==
    IF ~a.ok THEN a
    ELSE IF a.lx.buffer[3] # "."
    THEN HErr(a.lx, LexerError("InvalidNumericRepresentation",
                               BufferToString(a.lx), a.lx.coords))
    ELSE HOk(a.lx, FALSE)

\* Lexer::check_following_minus
CheckFollowingMinus(lx) ==
    IF lx.buffer[2] \in NonZeroDigit THEN HOk(lx, TRUE)
    ELSE IF lx.buffer[2] = "0" THEN CheckMinusZero(Advance(lx, FALSE))
    ELSE IF lx.buffer[2] = "\n" THEN HOk(Pushback(lx, TRUE), TRUE)
    ELSE HErr(lx, LexerError("InvalidNumericRepresentation", BufferToString(lx), lx.coords))

\* Lexer::match_valid_number_prefix, from the result a of advance on
CheckPrefix(a, minus) ==
    IF ~a.ok THEN a
    ELSE IF minus THEN CheckFollowingMinus(a.lx)
    ELSE CheckFollowingZero(a.lx)

\* Lexer::match_valid_number_prefix: Ok(integral) or an error
MatchValidNumberPrefix(lx) ==
    IF lx.buffer[1] = "-" THEN CheckPrefix(Advance(lx, FALSE), TRUE)
    ELSE IF lx.buffer[1] = "0" THEN CheckPrefix(Advance(lx, FALSE), FALSE)
    ELSE HOk(lx, TRUE)

\* an InvalidNumericRepresentation whose fragment leaves out the last scalar read
InvalidNumberFrontFragment(lx, coords) ==
    RErr(lx, LexerError("InvalidNumericRepresentation", Front(lx.buffer), coords))

\* lexer_error!(InvalidNumericRepresentation(self.buffer_to_string()), coords)
InvalidNumber(lx, coords) ==
    RErr(lx, LexerError("InvalidNumericRepresentation", BufferToString(lx), coords))

\* the parse_numeric call that ends Lexer::match_number
MatchNumberEnd(lx, start_coords, have_decimal) ==
    ParseNumeric(lx, ~have_decimal, start_coords, lx.coords)

RECURSIVE MatchNumberLoop(_, _, _, _)
RECURSIVE MatchNumberChar(_, _, _, _)
RECURSIVE MatchNumberExponent(_, _, _)

\* Lexer::match_number, from the result x of check_following_exponent on
MatchNumberExponent(x, start_coords, have_decimal) ==
    IF x.ok THEN MatchNumberLoop(x.lx, start_coords, TRUE, have_decimal)
    ELSE RErr(x.lx, x.err)

\* Lexer::match_number, from the result a of the advance of an iteration on
MatchNumberChar(a, start_coords, have_exponent, have_decimal) ==
    IF ~a.ok THEN RErr(a.lx, a.err)
    ELSE IF Last(a.lx.buffer) \in AsciiDigit
    THEN MatchNumberLoop(a.lx, start_coords, have_exponent, have_decimal)
    ELSE IF Last(a.lx.buffer) \in {"e", "E"}
    THEN IF ~have_exponent
         THEN MatchNumberExponent(CheckFollowingExponent(a.lx), start_coords, have_decimal)
         ELSE InvalidNumber(a.lx, IncN(start_coords, 1))
    ELSE IF Last(a.lx.buffer) = "."
    THEN IF ~have_decimal
         THEN MatchNumberLoop(a.lx, start_coords, have_exponent, TRUE)
         ELSE InvalidNumber(a.lx, IncN(start_coords, 1))
    ELSE IF Last(a.lx.buffer) \in NumericTerminator
    THEN MatchNumberEnd(Pushback(a.lx, FALSE), start_coords, have_decimal)
    ELSE IF Last(a.lx.buffer) = "\n"
    THEN MatchNumberEnd(Pushback(a.lx, TRUE), start_coords, have_decimal)
    ELSE IF Last(a.lx.buffer) \in AsciiWhitespace
    THEN MatchNumberEnd(Pushback(a.lx, FALSE), start_coords, have_decimal)
    \* the is_alphabetic arm and the catch-all arm return the same error
    ELSE InvalidNumber(a.lx, a.lx.coords)

\* the loop of Lexer::match_number and the parse_numeric call that follows it
MatchNumberLoop(lx, start_coords, have_exponent, have_decimal) ==
    MatchNumberChar(Advance(lx, FALSE), start_coords, have_exponent, have_decimal)

\* a match_number that forgets the decimal point read by the prefix check
MatchNumberPrefixNoDecimal(p, start_coords) ==
    IF p.ok THEN MatchNumberLoop(p.lx, start_coords, FALSE, FALSE)
    ELSE RErr(p.lx, p.err)

\* Lexer::match_number, from the result p of match_valid_number_prefix on
MatchNumberPrefix(p, start_coords) ==
    IF p.ok THEN MatchNumberLoop(p.lx, start_coords, FALSE, ~p.flag)
    ELSE RErr(p.lx, p.err)

\* Lexer::match_number
MatchNumber(lx) == MatchNumberPrefix(MatchValidNumberPrefix(lx), lx.coords)

\* a literal matcher that compares the first three scalars only
MatchPatternFirstThree(a, pattern, tok, start_coords) ==
    IF ~a.ok THEN RErr(a.lx, a.err)
    ELSE IF SubSeq(a.lx.buffer, 1, 3) = SubSeq(pattern, 1, 3)
    THEN RTok(a.lx, tok, start_coords, a.lx.coords)
    ELSE RErr(a.lx, [LexerError("MatchFailed", BufferToString(a.lx), start_coords)
                     EXCEPT !.expected = pattern])

\* Lexer::match_null, match_true and match_false, from the result a of
\* advance_n on
MatchPattern(a, pattern, tok, start_coords) ==
    IF ~a.ok THEN RErr(a.lx, a.err)
    ELSE IF SubSeq(a.lx.buffer, 1, Len(pattern)) = pattern
    THEN RTok(a.lx, tok, start_coords, a.lx.coords)
    ELSE RErr(a.lx, [LexerError("MatchFailed", BufferToString(a.lx), start_coords)
                     EXCEPT !.expected = pattern])

\* Lexer::match_null
MatchNull(lx) == MatchPattern(AdvanceN(lx, 3, FALSE), NULL_PATTERN, Tok("Null"), lx.coords)

\* Lexer::match_true
MatchTrue(lx) == MatchPattern(AdvanceN(lx, 3, FALSE), TRUE_PATTERN, BoolTok(TRUE), lx.coords)

\* Lexer::match_false
MatchFalse(lx) ==
    MatchPattern(AdvanceN(lx, 4, FALSE), FALSE_PATTERN, BoolTok(FALSE), lx.coords)

\* Lexer::reset
Reset(lx) == [lx EXCEPT !.buffer = <<>>]

\* Lexer::consume, from the result a of advance(true) on
ConsumeChar(a) ==
    IF ~a.ok THEN RTok(a.lx, Tok("EndOfInput"), a.lx.coords, a.lx.coords)
    ELSE CASE a.lx.buffer[1] = "{" -> RTok(a.lx, Tok("StartObject"), a.lx.coords, a.lx.coords)
           [] a.lx.buffer[1] = "}" -> RTok(a.lx, Tok("EndObject"), a.lx.coords, a.lx.coords)
           [] a.lx.buffer[1] = "[" -> RTok(a.lx, Tok("StartArray"), a.lx.coords, a.lx.coords)
           [] a.lx.buffer[1] = "]" -> RTok(a.lx, Tok("EndArray"), a.lx.coords, a.lx.coords)
           [] a.lx.buffer[1] = ":" -> RTok(a.lx, Tok("Colon"), a.lx.coords, a.lx.coords)
           [] a.lx.buffer[1] = "," -> RTok(a.lx, Tok("Comma"), a.lx.coords, a.lx.coords)
           [] a.lx.buffer[1] = "\"" -> MatchString(a.lx)
           [] a.lx.buffer[1] = "n" -> MatchNull(a.lx)
           [] a.lx.buffer[1] = "t" -> MatchTrue(a.lx)
           [] a.lx.buffer[1] = "f" -> MatchFalse(a.lx)
           [] a.lx.buffer[1] = "-" -> MatchNumber(a.lx)
           [] a.lx.buffer[1] \in AsciiDigit -> MatchNumber(a.lx)
           [] OTHER -> RErr(a.lx, LexerError("InvalidCharacter", <<a.lx.buffer[1]>>,
                                             a.lx.coords))

\* Lexer::consume
Consume(lx) == ConsumeChar(Advance([Reset(lx) EXCEPT !.calls = @ + 1], TRUE))

-----------------------------------------------------------------------------
(* JsonPointer (src/src/pointer.rs)                                        *)

ENCODED_TILDE == <<"~", "0">>

ENCODED_SLASH == <<"~", "1">>

RootComponent == [k |-> "Root", name |-> <<>>, index |-> 0]

NameComponent(name) == [k |-> "Name", name |-> name, index |-> 0]

IndexComponent(i) == [k |-> "Index", name |-> <<>>, index |-> i]

RECURSIVE Replace(_, _, _)
\* str::replace for a pattern of one scalar
Replace(s, c, by) ==
    IF s = <<>> THEN <<>>
    ELSE (IF s[1] = c THEN by ELSE <<s[1]>>) \o Replace(Tail(s), c, by)

RECURSIVE Decimal(_)
\* Display for usize
Decimal(i) ==
    IF i < 10 THEN <<DigitSeq[i + 1]>> ELSE Decimal(i \div 10) \o <<DigitSeq[(i % 10) + 1]>>

\* a Display that replaces "/" before "~", so that the "~" of "~1" is encoded again
ComponentToStringSlashFirst(c) ==
    CASE c.k = "Root" -> <<>>
      [] c.k = "Name" -> Replace(Replace(Replace(c.name, "/", ENCODED_SLASH), "\"", <<>>),
                                 "~", ENCODED_TILDE)
      [] c.k = "Index" -> Decimal(c.index)

\* Display for JsonPointerComponent
ComponentToString(c) ==
    CASE c.k = "Root" -> <<>>
      [] c.k = "Name" -> Replace(Replace(Replace(c.name, "~", ENCODED_TILDE), "\"", <<>>),
                                 "/", ENCODED_SLASH)
      [] c.k = "Index" -> Decimal(c.index)

\* JsonPointer::default
EmptyPointer == <<>>

\* JsonPointer::len
PtrLen(p) == Len(p)

\* JsonPointer::is_empty
IsEmpty(p) == p = <<>>

\* a push_name that does not put Root under the first component
PushNameNoRoot(p, name) == Append(p, NameComponent(name))

\* JsonPointer::push_name
PushName(p, name) ==
    (IF IsEmpty(p) THEN <<RootComponent>> ELSE p) \o <<NameComponent(name)>>

\* a push_index that counts elements from one
PushIndexFromOne(p, i) ==
    Append(IF IsEmpty(p) THEN <<RootComponent>> ELSE p, IndexComponent(i + 1))

\* JsonPointer::push_index
PushIndex(p, i) ==
    (IF IsEmpty(p) THEN <<RootComponent>> ELSE p) \o <<IndexComponent(i)>>

\* a pop that leaves the pointer as it is
PopNothing(p) == p

\* JsonPointer::pop (VecDeque::pop_back)
Pop(p) == IF p = <<>> THEN p ELSE Front(p)

RECURSIVE Join(_, _)
\* [String]::join
Join(strs, sep) ==
    IF strs = <<>> THEN <<>>
    ELSE IF Len(strs) = 1 THEN strs[1]
    ELSE strs[1] \o sep \o Join(Tail(strs), sep)

\* JsonPointer::as_str
AsStr(p) ==
    IF IsEmpty(p) THEN <<>>
    ELSE Join([i \in 1..Len(p) |-> ComponentToString(p[i])], <<"/">>)

\* Add<&JsonPointer> for JsonPointer: the components of rhs pushed onto the
\* back of self, one by one
Add(self, r) == self \o r

-----------------------------------------------------------------------------
(* Results of the parsers                                                  *)

Idle == [status |-> "idle", err |-> NoErr]

Running == [status |-> "running", err |-> NoErr]

ResOk == [status |-> "ok", err |-> NoErr]

ResErr(err) == [status |-> "err", err |-> err]

ResPanic == [status |-> "panic", err |-> NoErr]

IsRunning(st) == st.res.status = "running"

ScalarTokens == {"Str", "Float", "Integer", "Boolean", "Null"}

\* the state after `lexer.consume()?`: still running only when consume returned Ok
AfterConsume(st, r) ==
    [st EXCEPT !.lex = r.lx,
               !.stack = IF r.kind = "tok" THEN @ ELSE <<>>,
               !.res = CASE r.kind = "tok" -> @
                         [] r.kind = "err" -> ResErr(r.err)
                         [] OTHER -> ResPanic]

\* return Err(error): the active calls unwind
Fail(st, err) == [st EXCEPT !.stack = <<>>, !.res = ResErr(err)]

-----------------------------------------------------------------------------
(* The SAX parser (src/src/sax.rs).  A state st of the parse is the record *)
(* [lex, stack, pointer, events, res]; stack holds one frame per active    *)
(* parse_object / parse_array call.                                        *)

\* sax_parser_error!(details, coords)
SaxParserError(details, tok, coords) ==
    [NoErr EXCEPT !.source = "SaxParser", !.details = details, !.tok = tok,
                  !.coords = coords, !.hasCoords = TRUE]

\* the error a failing callback returns
CallbackError == [NoErr EXCEPT !.source = "Callback", !.details = "CallbackFailed"]

Match(m) == [NoTok EXCEPT !.t = m]

ObjectKeyMatch(s) == [NoTok EXCEPT !.t = "ObjectKey", !.s = s]

\* Match::String / Float / Integer / Boolean / Null built from the token
ScalarMatch(tok) == [tok EXCEPT !.t = IF tok.t = "Str" THEN "String" ELSE tok.t]

\* an emit_event! without the "?": the result of the callback is dropped
EmitEventUnchecked(st, m, span, withPointer, fail) ==
    LET ev == [matched |-> m, span |-> span, hasPointer |-> withPointer,
               pointer |-> IF withPointer THEN AsStr(st.pointer) ELSE <<>>,
               consumed |-> st.lex.calls,
               returned |-> IF fail THEN "Err" ELSE "Ok"]
    IN  [st EXCEPT !.events = Append(@, ev)]

\* emit_event!(cb, m, span, pointer)? and emit_event!(cb, m, span)?: the callback
\* sees the event; when it returns an error (fail) the parse returns that error.
\* pointer is what as_str() gives the callback; consumed is the number of consume
\* calls made before the callback is invoked and returned is what the callback
\* returns (history fields)
EmitEvent(st, m, span, withPointer, fail) ==
    LET ev == [matched |-> m, span |-> span, hasPointer |-> withPointer,
               pointer |-> IF withPointer THEN AsStr(st.pointer) ELSE <<>>,
               consumed |-> st.lex.calls,
               returned |-> IF fail THEN "Err" ELSE "Ok"]
    IN  [st EXCEPT !.events = Append(@, ev),
                   !.stack = IF fail THEN <<>> ELSE @,
                   !.res = IF fail THEN ResErr(CallbackError) ELSE @]

\* a parse_value that calls parse_array for either container
SaxCallArray(st, fn) == [st EXCEPT !.stack = Append(@, [fn |-> "array", index |-> 0])]

\* the call self.parse_object(..) / self.parse_array(..)
SaxCall(st, fn) == [st EXCEPT !.stack = Append(@, [fn |-> fn, index |-> 0])]

\* "return self.parse_array(..)" in place of "self.parse_array(..)?;": the
\* result of a nested container is taken for the result of the parse
SaxReturnEarly(st) == [st EXCEPT !.stack = <<>>, !.res = ResOk]

\* parse_object / parse_array returns Ok(()): the result of parse for the root
\* container, else the caller goes on to its pointer.pop()
SaxReturn(st) ==
    IF Front(st.stack) = <<>>
    THEN [st EXCEPT !.stack = <<>>, !.res = ResOk]
    ELSE [st EXCEPT !.stack = Front(@), !.pointer = Pop(@)]

\* after an emit_event!(..)?: the call of parse_object / parse_array
ThenCall(st, fn) == IF IsRunning(st) THEN SaxCall(st, fn) ELSE st

\* after an emit_event!(..) that is the value returned
ThenReturn(st) == IF IsRunning(st) THEN SaxReturn(st) ELSE st

\* after an emit_event!(..)?: the pointer.pop() that ends the iteration
ThenPop(st) == IF IsRunning(st) THEN [st EXCEPT !.pointer = Pop(@)] ELSE st

\* sax::Parser::parse_value, from the result r of lexer.consume() on
SaxValueToken(st, r, fail) ==
    IF r.kind # "tok" THEN AfterConsume(st, r)
    ELSE IF r.tok.t = "StartObject"
    THEN ThenCall(EmitEvent(AfterConsume(st, r), Match("StartObject"), r.span, TRUE, fail),
                  "object")
    ELSE IF r.tok.t = "StartArray"
    THEN ThenCall(EmitEvent(AfterConsume(st, r), Match("StartArray"), r.span, TRUE, fail),
                  "array")
    ELSE IF r.tok.t \in ScalarTokens
    THEN EmitEvent(AfterConsume(st, r), ScalarMatch(r.tok), r.span, TRUE, fail)
    ELSE Fail(AfterConsume(st, r), SaxParserError("UnexpectedToken", r.tok, r.span.start))

\* sax::Parser::parse_value, up to the call of parse_object / parse_array
SaxParseValue(st, fail) == SaxValueToken(st, Consume(st.lex), fail)

\* sax::Parser::parse_object, from the return of parse_value on: the pop follows
\* a scalar at once, and a container when its call returns
SaxObjectValue(st, depth) ==
    IF IsRunning(st) /\ Len(st.stack) = depth THEN [st EXCEPT !.pointer = Pop(@)] ELSE st

\* sax::Parser::parse_object, from the token after the key on
SaxObjectColon(st, should_be_colon, failAt) ==
    IF should_be_colon.kind # "tok" THEN AfterConsume(st, should_be_colon)
    ELSE IF should_be_colon.tok.t = "Colon"
    THEN SaxObjectValue(SaxParseValue(AfterConsume(st, should_be_colon), failAt = 2),
                        Len(st.stack))
    ELSE Fail(AfterConsume(st, should_be_colon),
              SaxParserError("PairExpected", NoTok, should_be_colon.span.start))

\* sax::Parser::parse_object, from the emit_event! of ObjectKey on
SaxObjectKey(st, failAt) ==
    IF IsRunning(st) THEN SaxObjectColon(st, Consume(st.lex), failAt) ELSE st

\* sax::Parser::parse_object, from the result r of lexer.consume() on
SaxObjectToken(st, r, failAt) ==
    IF r.kind # "tok" THEN AfterConsume(st, r)
    ELSE IF r.tok.t = "Str"
    THEN SaxObjectKey(EmitEvent([AfterConsume(st, r) EXCEPT !.pointer = PushName(@, r.tok.s)],
                                ObjectKeyMatch(r.tok.s), r.span, TRUE, failAt = 1),
                      failAt)
    ELSE IF r.tok.t = "Comma" THEN AfterConsume(st, r)
    ELSE IF r.tok.t = "EndObject"
    THEN ThenReturn(EmitEvent(AfterConsume(st, r), Match("EndObject"), r.span, TRUE,
                              failAt = 1))
    ELSE Fail(AfterConsume(st, r), SaxParserError("InvalidArray", NoTok, r.span.start))

\* one iteration of the loop of sax::Parser::parse_object; failAt names the
\* callback invocation of this iteration that returns an error (0: none)
SaxParseObject(st, failAt) == SaxObjectToken(st, Consume(st.lex), failAt)

\* sax::Parser::parse_array, from the result r of lexer.consume() on; st has
\* the index pushed
SaxArrayToken(st, r, failAt) ==
    IF r.kind # "tok" THEN AfterConsume(st, r)
    ELSE IF r.tok.t = "StartArray"
    THEN ThenCall(EmitEvent(AfterConsume(st, r), Match("StartArray"), r.span, TRUE,
                            failAt = 1), "array")
    ELSE IF r.tok.t = "EndArray"
    THEN ThenReturn(EmitEvent([AfterConsume(st, r) EXCEPT !.pointer = Pop(@)],
                              Match("EndArray"), r.span, TRUE, failAt = 1))
    ELSE IF r.tok.t = "StartObject"
    THEN ThenCall(EmitEvent(AfterConsume(st, r), Match("StartObject"), r.span, TRUE,
                            failAt = 1), "object")
    ELSE IF r.tok.t \in ScalarTokens
    THEN ThenPop(EmitEvent(AfterConsume(st, r), ScalarMatch(r.tok), r.span, TRUE,
                           failAt = 1))
    ELSE IF r.tok.t = "Comma"
    THEN [AfterConsume(st, r) EXCEPT !.stack[Len(st.stack)].index = @ + 1,
                                     !.pointer = Pop(@)]
    ELSE Fail(AfterConsume(st, r), SaxParserError("InvalidArray", NoTok, r.span.start))

\* one iteration of the loop of sax::Parser::parse_array
SaxParseArray(st, failAt) ==
    SaxArrayToken([st EXCEPT !.pointer = PushIndex(@, Last(st.stack).index)],
                  Consume(st.lex), failAt)

\* sax::Parser::parse, from the emit_event! of StartOfInput on
SaxRootStart(st, m, fn, span, failAt) ==
    IF IsRunning(st)
    THEN ThenCall(EmitEvent(st, Match(m), span, TRUE, failAt = 2), fn)
    ELSE st

\* a parse whose InvalidRootObject carries the end of the span of the token
SaxRootTokenAtEnd(st, r, failAt) ==
    IF r.kind # "tok" THEN AfterConsume(st, r)
    ELSE IF r.tok.t = "StartObject"
    THEN SaxRootStart(EmitEvent(AfterConsume(st, r), Match("StartOfInput"), r.span, FALSE,
                                failAt = 1),
                      "StartObject", "object", r.span, failAt)
    ELSE IF r.tok.t = "StartArray"
    THEN SaxRootStart(EmitEvent(AfterConsume(st, r), Match("StartOfInput"), r.span, TRUE,
                                failAt = 1),
                      "StartArray", "array", r.span, failAt)
    ELSE Fail(AfterConsume(st, r), SaxParserError("InvalidRootObject", NoTok, r.span.end))

\* sax::Parser::parse, from the result r of lexer.consume() on
SaxRootToken(st, r, failAt) ==
    IF r.kind # "tok" THEN AfterConsume(st, r)
    ELSE IF r.tok.t = "StartObject"
    THEN SaxRootStart(EmitEvent(AfterConsume(st, r), Match("StartOfInput"), r.span, FALSE,
                                failAt = 1),
                      "StartObject", "object", r.span, failAt)
    ELSE IF r.tok.t = "StartArray"
    THEN SaxRootStart(EmitEvent(AfterConsume(st, r), Match("StartOfInput"), r.span, TRUE,
                                failAt = 1),
                      "StartArray", "array", r.span, failAt)
    ELSE Fail(AfterConsume(st, r), SaxParserError("InvalidRootObject", NoTok, r.span.start))

\* sax::Parser::parse, up to the call of parse_object / parse_array
SaxParse(st, failAt) ==
    SaxRootToken([st EXCEPT !.pointer = EmptyPointer, !.lex = NewLexer, !.res = Running],
                 Consume(NewLexer), failAt)

\* a parse_str without the check of the length of the input
SaxParseStrUnchecked(st, failAt) == SaxParse(st, failAt)

\* sax::Parser::parse_str (parse_bytes is the same on the bytes of the text)
SaxParseStr(st, failAt) ==
    IF input = <<>>
    THEN Fail(st, SaxParserError("ZeroLengthInput", NoTok, DefaultCoords))
    ELSE SaxParse(st, failAt)

-----------------------------------------------------------------------------
(* The DOM parser (src/src/dom.rs).  A state st of the parse is the record *)
(* [lex, stack, res, value]; a frame of stack holds the pairs / values     *)
(* vector of an active parse_object / parse_array call, and the key whose  *)
(* value is being parsed.                                                  *)

\* dom_parser_error!(details, coords)
DomParserError(details, tok, coords) ==
    [NoErr EXCEPT !.source = "DomParser", !.details = details, !.tok = tok,
                  !.coords = coords, !.hasCoords = TRUE]

\* JsonValue (src/src/lib.rs): kids are the (key, value) pairs of an Object, in
\* the order of the Vec, or the values of an Array
NoValue == [t |-> "None", s |-> <<>>, n |-> 0, e |-> 0, b |-> FALSE, kids |-> <<>>]

ObjectValue(pairs) == [NoValue EXCEPT !.t = "Object", !.kids = pairs]

ArrayValue(values) == [NoValue EXCEPT !.t = "Array", !.kids = values]

\* JsonValue::String / Float / Integer / Boolean / Null built from the token
ScalarValue(tok) ==
    [NoValue EXCEPT !.t = IF tok.t = "Str" THEN "String" ELSE tok.t,
                    !.s = tok.s, !.n = tok.n, !.e = tok.e, !.b = tok.b]

\* the call self.parse_object(lexer) / self.parse_array(lexer)
DomCall(st, fn) == [st EXCEPT !.stack = Append(@, [fn |-> fn, key |-> <<>>, items |-> <<>>])]

\* a pairs that keeps one value per key, as a map would
PushPairUnique(st, key, v) ==
    IF \E i \in 1..Len(Last(st.stack).items) : Last(st.stack).items[i].key = key
    THEN [st EXCEPT !.stack[Len(st.stack)].items =
              [i \in 1..Len(@) |-> IF @[i].key = key THEN [key |-> key, value |-> v]
                                   ELSE @[i]]]
    ELSE [st EXCEPT !.stack[Len(st.stack)].items = Append(@, [key |-> key, value |-> v])]

\* pairs.push((str, value))
PushPair(st, key, v) ==
    [st EXCEPT !.stack[Len(st.stack)].items = Append(@, [key |-> key, value |-> v])]

\* values.insert(0, value) in place of values.push(value)
PushValueFront(st, v) == [st EXCEPT !.stack[Len(st.stack)].items = <<v>> \o @]

\* values.push(value)
PushValue(st, v) == [st EXCEPT !.stack[Len(st.stack)].items = Append(@, v)]

\* a return of the root container that asks the lexer for one more token
DomReturnReadsOn(st, v) ==
    IF Front(st.stack) = <<>>
    THEN [st EXCEPT !.stack = <<>>, !.res = ResOk, !.value = v,
                    !.lex = Consume(st.lex).lx]
    ELSE IF st.stack[Len(st.stack) - 1].fn = "object"
    THEN PushPair([st EXCEPT !.stack = Front(@)], st.stack[Len(st.stack) - 1].key, v)
    ELSE PushValue([st EXCEPT !.stack = Front(@)], v)

\* parse_object / parse_array returns Ok(value): the result of parse for the
\* root container, else the caller pushes it
DomReturn(st, v) ==
    IF Front(st.stack) = <<>>
    THEN [st EXCEPT !.stack = <<>>, !.res = ResOk, !.value = v]
    ELSE IF st.stack[Len(st.stack) - 1].fn = "object"
    THEN PushPair([st EXCEPT !.stack = Front(@)], st.stack[Len(st.stack) - 1].key, v)
    ELSE PushValue([st EXCEPT !.stack = Front(@)], v)

\* dom::Parser::parse_object, from the result v of the lexer.consume() of
\* parse_value on; the frame keeps the key while a container is parsed
DomObjectValue(st, key, v) ==
    IF v.kind # "tok" THEN AfterConsume(st, v)
    ELSE IF v.tok.t = "StartObject"
    THEN DomCall([AfterConsume(st, v) EXCEPT !.stack[Len(st.stack)].key = key], "object")
    ELSE IF v.tok.t = "StartArray"
    THEN DomCall([AfterConsume(st, v) EXCEPT !.stack[Len(st.stack)].key = key], "array")
    ELSE IF v.tok.t \in ScalarTokens
    THEN PushPair(AfterConsume(st, v), key, ScalarValue(v.tok))
    ELSE Fail(AfterConsume(st, v), DomParserError("UnexpectedToken", v.tok, v.span.start))

\* dom::Parser::parse_object, from the token after the key on
DomObjectColon(st, key, should_be_colon) ==
    IF should_be_colon.kind # "tok" THEN AfterConsume(st, should_be_colon)
    ELSE IF should_be_colon.tok.t = "Colon"
    THEN DomObjectValue(AfterConsume(st, should_be_colon), key,
                        Consume(should_be_colon.lx))
    ELSE Fail(AfterConsume(st, should_be_colon),
              DomParserError("PairExpected", NoTok, should_be_colon.span.start))

\* dom::Parser::parse_object, from the result r of lexer.consume() on
DomObjectToken(st, r) ==
    IF r.kind # "tok" THEN AfterConsume(st, r)
    ELSE IF r.tok.t = "Str"
    THEN DomObjectColon(AfterConsume(st, r), r.tok.s, Consume(r.lx))
    ELSE IF r.tok.t = "Comma" THEN AfterConsume(st, r)
    ELSE IF r.tok.t = "EndObject"
    THEN DomReturn(AfterConsume(st, r), ObjectValue(Last(st.stack).items))
    ELSE Fail(AfterConsume(st, r), DomParserError("InvalidObject", NoTok, r.span.start))

\* one iteration of the loop of dom::Parser::parse_object, with the parse_value
\* call up to its call of parse_object / parse_array
DomParseObject(st) == DomObjectToken(st, Consume(st.lex))

\* a parse_array whose InvalidArray carries the default coords
DomArrayTokenDefaultCoords(st, r) ==
    IF r.kind # "tok" THEN AfterConsume(st, r)
    ELSE IF r.tok.t = "StartArray" THEN DomCall(AfterConsume(st, r), "array")
    ELSE IF r.tok.t = "EndArray"
    THEN DomReturn(AfterConsume(st, r), ArrayValue(Last(st.stack).items))
    ELSE IF r.tok.t = "StartObject" THEN DomCall(AfterConsume(st, r), "object")
    ELSE IF r.tok.t \in ScalarTokens THEN PushValue(AfterConsume(st, r), ScalarValue(r.tok))
    ELSE IF r.tok.t = "Comma" THEN AfterConsume(st, r)
    ELSE Fail(AfterConsume(st, r), DomParserError("InvalidArray", NoTok, DefaultCoords))

\* a parse_array that takes a Comma for an element without a value
DomArrayTokenCountsCommas(st, r) ==
    IF r.kind # "tok" THEN AfterConsume(st, r)
    ELSE IF r.tok.t = "StartArray" THEN DomCall(AfterConsume(st, r), "array")
    ELSE IF r.tok.t = "EndArray"
    THEN DomReturn(AfterConsume(st, r), ArrayValue(Last(st.stack).items))
    ELSE IF r.tok.t = "StartObject" THEN DomCall(AfterConsume(st, r), "object")
    ELSE IF r.tok.t \in ScalarTokens THEN PushValue(AfterConsume(st, r), ScalarValue(r.tok))
    ELSE IF r.tok.t = "Comma" THEN PushValue(AfterConsume(st, r), ScalarValue(Tok("Null")))
    ELSE Fail(AfterConsume(st, r), DomParserError("InvalidArray", NoTok, r.span.start))

\* dom::Parser::parse_array, from the result r of lexer.consume() on
DomArrayToken(st, r) ==
    IF r.kind # "tok" THEN AfterConsume(st, r)
    ELSE IF r.tok.t = "StartArray" THEN DomCall(AfterConsume(st, r), "array")
    ELSE IF r.tok.t = "EndArray"
    THEN DomReturn(AfterConsume(st, r), ArrayValue(Last(st.stack).items))
    ELSE IF r.tok.t = "StartObject" THEN DomCall(AfterConsume(st, r), "object")
    ELSE IF r.tok.t \in ScalarTokens THEN PushValue(AfterConsume(st, r), ScalarValue(r.tok))
    ELSE IF r.tok.t = "Comma" THEN AfterConsume(st, r)
    ELSE Fail(AfterConsume(st, r), DomParserError("InvalidArray", NoTok, r.span.start))

\* one iteration of the loop of dom::Parser::parse_array
DomParseArray(st) == DomArrayToken(st, Consume(st.lex))

\* dom::Parser::parse, from the result r of lexer.consume() on
DomRootToken(st, r) ==
    IF r.kind # "tok" THEN AfterConsume(st, r)
    ELSE IF r.tok.t = "StartObject" THEN DomCall(AfterConsume(st, r), "object")
    ELSE IF r.tok.t = "StartArray" THEN DomCall(AfterConsume(st, r), "array")
    ELSE Fail(AfterConsume(st, r), DomParserError("InvalidRootObject", NoTok, r.span.start))

\* dom::Parser::parse, up to the call of parse_object / parse_array
DomParse(st) ==
    DomRootToken([st EXCEPT !.lex = NewLexer, !.res = Running], Consume(NewLexer))

\* dom::Parser::parse_str (parse_bytes is the same on the bytes of the text)
DomParseStr(st) == DomParse(st)

-----------------------------------------------------------------------------
(* Scanner (src/src/scanner.rs)                                            *)
(* A Lexeme is its variant and, for the variants that carry one, its       *)
(* char; a PackedLexeme is a lexeme and its coords.                        *)

\* char::is_whitespace, on the ASCII scalars
IsWhitespace(c) == c \in {" ", "\t", "\n", "\f", "\r"}

\* the match of Scanner::char_to_lexeme; is_alphabetic on the ASCII scalars
LexemeOfChar(c) ==
    CASE c = "{" -> [l |-> "LeftBrace", c |-> NoChar]
      [] c = "}" -> [l |-> "RightBrace", c |-> NoChar]
      [] c = "[" -> [l |-> "LeftBracket", c |-> NoChar]
      [] c = "]" -> [l |-> "RightBracket", c |-> NoChar]
      [] c = "." -> [l |-> "Period", c |-> NoChar]
      [] c = ":" -> [l |-> "Colon", c |-> NoChar]
      [] c = "," -> [l |-> "Comma", c |-> NoChar]
      [] c = "\\" -> [l |-> "Escape", c |-> NoChar]
      [] c = "\"" -> [l |-> "DoubleQuote", c |-> NoChar]
      [] c = "'" -> [l |-> "SingleQuote", c |-> NoChar]
      [] c = "+" -> [l |-> "Plus", c |-> NoChar]
      [] c = "-" -> [l |-> "Minus", c |-> NoChar]
      [] c = "\n" -> [l |-> "NewLine", c |-> NoChar]
      [] OTHER ->
           IF IsWhitespace(c) THEN [l |-> "Whitespace", c |-> c]
           ELSE IF c \in AsciiDigit THEN [l |-> "Digit", c |-> c]
           ELSE IF c \in {"a", "b", "c", "d", "e", "f", "g", "h", "i", "j", "k", "l", "m",
                          "n", "o", "p", "q", "r", "s", "t", "u", "v", "w", "x", "y", "z",
                          "A", "B", "C", "D", "E", "F", "G", "H", "I", "J", "K", "L", "M",
                          "N", "O", "P", "Q", "R", "S", "T", "U", "V", "W", "X", "Y", "Z"}
           THEN [l |-> "Alphabetic", c |-> c]
           ELSE [l |-> "NonAlphabetic", c |-> c]

\* Scanner::new.  pos is the number of scalars the decoder has yielded
NewScanner ==
    [buffer |-> <<>>, pos |-> 0, back_coords |-> DefaultCoords,
     front_coords |-> DefaultCoords, mode |-> "IgnoreWhitespace"]

\* the scanner after decode_next has yielded its next scalar, with the two
\* back_coords.replace of Scanner::advance
Decoded(sc) ==
    [sc EXCEPT !.pos = @ + 1,
               !.back_coords =
                   IF input[sc.pos + 1] = "\n"
                   THEN [absolute |-> @.absolute + 1, line |-> @.line + 1, column |-> 0]
                   ELSE [absolute |-> @.absolute + 1, line |-> @.line,
                         column |-> @.column + 1]]

RECURSIVE ScannerAdvance(_)
\* Scanner::advance: Ok(c), or the EndOfInput error
ScannerAdvance(sc) ==
    IF sc.pos >= Len(input) THEN [ok |-> FALSE, c |-> NoChar, sc |-> sc]
    ELSE IF sc.mode = "IgnoreWhitespace" /\ IsWhitespace(input[sc.pos + 1])
    THEN ScannerAdvance(Decoded(sc))
    ELSE [ok |-> TRUE, c |-> input[sc.pos + 1], sc |-> Decoded(sc)]

\* Ok(packed lexeme) of the operations of the scanner
ScanOk(sc, lexeme, coords) ==
    [ok |-> TRUE, lex |-> [lexeme |-> lexeme, coords |-> coords], sc |-> sc]

\* Err(scanner_error!(ParserErrorCode::EndOfInput, "end of input reached"))
ScanErr(sc) ==
    [ok |-> FALSE,
     lex |-> [lexeme |-> [l |-> "None", c |-> NoChar], coords |-> DefaultCoords],
     sc |-> sc]

\* Scanner::char_to_lexeme, from the result a of advance on
PackChar(a) ==
    IF a.ok THEN ScanOk(a.sc, LexemeOfChar(a.c), a.sc.back_coords) ELSE ScanErr(a.sc)

\* Scanner::char_to_lexeme
CharToLexeme(sc) == PackChar(ScannerAdvance(sc))

\* Scanner::consume on an empty buffer, from the result r of char_to_lexeme on
ConsumeFromDecoder(r) ==
    IF r.ok THEN r
    ELSE ScanOk(r.sc, [l |-> "EndOfInput", c |-> NoChar], r.sc.back_coords)

\* Scanner::consume
ScannerConsume(sc) ==
    IF sc.buffer # <<>>
    THEN ScanOk([sc EXCEPT !.buffer = Tail(@), !.front_coords = sc.buffer[1].coords],
                sc.buffer[1].lexeme, sc.buffer[1].coords)
    ELSE ConsumeFromDecoder(CharToLexeme(sc))

RECURSIVE Discard(_, _)
\* Scanner::discard: count calls of consume, their results dropped
Discard(sc, count) ==
    IF count = 0 THEN sc ELSE Discard(ScannerConsume(sc).sc, count - 1)

RECURSIVE FillBuffer(_, _)
RECURSIVE FillNext(_, _)
\* the loop of Scanner::lookahead, from the result r of char_to_lexeme on
FillNext(r, count) ==
    IF r.ok THEN FillBuffer([r.sc EXCEPT !.buffer = Append(@, r.lex)], count)
    ELSE ScanErr(r.sc)

\* the loop of Scanner::lookahead
FillBuffer(sc, count) ==
    IF Len(sc.buffer) >= count THEN [ok |-> TRUE, sc |-> sc]
    ELSE FillNext(CharToLexeme(sc), count)

\* a lookahead that takes the lexeme it returns out of the buffer
LookaheadTakes(f, count) ==
    IF f.ok
    THEN ScanOk([f.sc EXCEPT !.front_coords = f.sc.buffer[1].coords,
                             !.buffer = SubSeq(@, 1, count - 1)
                                        \o SubSeq(@, count + 1, Len(@))],
                f.sc.buffer[count].lexeme, f.sc.buffer[count].coords)
    ELSE f

\* Scanner::lookahead for a count above zero, from the result f of its loop on
LookaheadResult(f, count) ==
    IF f.ok
    THEN ScanOk([f.sc EXCEPT !.front_coords = f.sc.buffer[1].coords],
                f.sc.buffer[count].lexeme, f.sc.buffer[count].coords)
    ELSE f

\* Scanner::lookahead
Lookahead(sc, count) == LookaheadResult(FillBuffer(sc, count), count)

-----------------------------------------------------------------------------

(* The inputs.  A parse is run on every sequence of at most MaxChunks      *)
(* lexemes of Chunks that opens a container, on every single lexeme, on    *)
(* the empty input and on the documents of Documents.                      *)

MaxChunks == 5

Chunks ==
    { <<"{">>,
      <<"}">>,
      <<"[">>,
      <<"]">>,
      <<":">>,
      <<",">>,
      <<"\"", "a", "\"">>,
      <<"1">> }

RECURSIVE ChunkSeqs(_)
\* the concatenations of at most n lexemes of Chunks
ChunkSeqs(n) ==
    IF n = 0 THEN {<<>>}
    ELSE LET shorter == ChunkSeqs(n - 1) IN
         shorter \cup {s \o c : s \in shorter, c \in Chunks}

Documents ==
    { <<"{", "}">>,   \* S1
      <<"[", "1", ",", " ", "2", ".", "5", ",", " ", "t", "r", "u", "e", ",", " ", "n", "u", "l", "l", ",", " ", "\"", "x", "\"", "]">>,   \* S2
      <<"{", "\"", "a", "\"", ":", " ", "{", "\"", "b", "\"", ":", " ", "[", "1", "0", "]", "}", "}">>,   \* S3
      <<"1", "2", "3", "a", "b", "c">>,   \* S4
      <<"\"", "\\", "q", "\"">>,   \* S5
      <<"[", "1", ",", " ", "2", ",">>,   \* S7
      <<"{", "\"", "a", "/", "b", "\"", ":", "1", "}">>,   \* S8
      <<"[", "1", "e", "5", "]">>,   \* plain exponent
      <<"[", "-", "0", "]">>,   \* negative zero
      <<"[", "1", "E", "+", "2", ",", "-", "3", "]">>,   \* signed exponent
      <<"[", "0", ".", "5", ",", "0", "]">>,   \* fraction and zero
      <<"{", "\"", "a", "\"", ":", "1", ",", "\"", "a", "\"", ":", "2", "}">>,   \* duplicate keys
      <<"[", "[", "1", ",", "[", "2", "]", "]", ",", "{", "\"", "k", "~", "\"", ":", "[", "]", "}", "]">>,   \* nesting
      <<"[", ",", "1", " ", "2", "]">>,   \* no comma, leading comma
      <<"{", "\"", "a", "\"", ":", "[", "{", "\"", "b", "\"", ":", "n", "u", "l", "l", "}", ",", "f", "a", "l", "s", "e", "]", "}">>,   \* object in object in array
      <<"[", "1", "\n", ",", "\r", "2", "]">>,   \* line terminators
      <<"{", "\"", "\\", "\"", "\"", ":", "\"", "\\", "\\", "\"", "}">>,   \* escaped quote in a key
      <<"[", "1", "]", "x">>,   \* text after the root
      <<"{", "\"", "a", "\"", ":", "[", "]", ",", "\"", "b", "\"", ":", "{", "\"", "c", "\"", ":", "t", "r", "u", "e", "}", "}">>,   \* two members
      <<"[", "\"", "a", ",", "b", "\"", ",", "[", "\"", ",", "\"", ",", "3", "]", ",", "{", "\"", "k", "\"", ":", "0", ",", "\"", "/", "\"", ":", "[", "7", ",", "8", "]", "}", ",", "9", "]">>,   \* commas everywhere
      <<"[", "1", "2", "a", "]">>,   \* letter after the digits of an element
      <<"{", "\"", "a", "\"", ":", "7", "x", "}">>,   \* letter after the digit of a member
      <<"0", "b">>,   \* letter after a zero
      <<"[", "1", ",", " ", "1", "0", "Z">>,   \* letter after the digits of a second element
      <<" ", " ">>,
      <<" ", "\n", "]">>,   \* closing bracket first, on the second line
      <<"\n", " ", "n", "u", "l", "l">>,   \* literal as the root
      <<"7", " ">>,   \* number as the root
      <<" ", "\n">>,
      <<"[", "1", " ", "2", "]">>,   \* no comma
      <<"[", ",", "1", ",", ",", "2", ",", "]">>,   \* commas before, twice between, after
      <<"[", "1", ",", "2", "]">>,
      <<"{", "\"", "a", "\"", ":", "1", " ", "\"", "b", "\"", ":", "[", "]", "}">>,   \* members without a comma
      <<"{", ",", "\"", "a", "\"", ":", "1", ",", ",", "\"", "b", "\"", ":", "[", ",", "]", ",", "}">>,
      <<"{", "\"", "a", "\"", ",", ":", "1", "}">>,   \* comma after a key
      <<"{", "\"", "a", "\"", ":", ",", "1", "}">> }   \* comma after a colon

Inputs ==
    {<<>>} \cup Chunks \cup Documents
    \cup {<<o>> \o s : o \in {"{", "["}, s \in ChunkSeqs(MaxChunks - 1)}

HasNumber(text) == \E i \in 1..Len(text) : text[i] \in AsciiDigit

-----------------------------------------------------------------------------
(* The runs.  In mode "pair" dom::Parser::parse_str and then               *)
(* sax::Parser::parse_str are run on the input, with a callback that       *)
(* records the event and returns Ok(()); in mode "cancel" the SAX parser   *)
(* is run with a callback that records the event and may return an error.  *)

DomSt == [lex |-> dlex, stack |-> dstack, res |-> dres, value |-> dvalue]

SaxSt == [lex |-> slex, stack |-> sstack, pointer |-> pointer, events |-> events,
          res |-> sres]

\* which callback invocation of a step returns an error (0: none)
FailChoices == IF mode = "cancel" THEN 0..2 ELSE {0}

SetDom(st) ==
    /\ dlex' = st.lex
    /\ dstack' = st.stack
    /\ dres' = st.res
    /\ dvalue' = st.value
    /\ phase' = IF st.res.status = "running" THEN "dom" ELSE "sax"
    /\ UNCHANGED <<input, mixed_numerics, mode, slex, sstack, pointer, events, sres,
                   ptr, ptrlog, lex, toks,
                   rhs, scanner, scanned>>

SetSax(st) ==
    /\ slex' = st.lex
    /\ sstack' = st.stack
    /\ pointer' = st.pointer
    /\ events' = st.events
    /\ sres' = st.res
    /\ phase' = IF st.res.status = "running" THEN "sax" ELSE "done"
    /\ UNCHANGED <<input, mixed_numerics, mode, dlex, dstack, dres, dvalue,
                   ptr, ptrlog, lex, toks,
                   rhs, scanner, scanned>>

\* the call of dom::Parser::parse_str
DomParseStrCall ==
    /\ phase = "dom"
    /\ dres.status = "idle"
    /\ SetDom(DomParseStr(DomSt))

\* an iteration of the loop of the innermost dom parse_object call
DomParseObjectStep ==
    /\ phase = "dom"
    /\ dres.status = "running"
    /\ Last(dstack).fn = "object"
    /\ SetDom(DomParseObject(DomSt))

\* an iteration of the loop of the innermost dom parse_array call
DomParseArrayStep ==
    /\ phase = "dom"
    /\ dres.status = "running"
    /\ Last(dstack).fn = "array"
    /\ SetDom(DomParseArray(DomSt))

\* the call of sax::Parser::parse_str
SaxParseStrCall ==
    /\ phase = "sax"
    /\ sres.status = "idle"
    /\ \E failAt \in FailChoices : SetSax(SaxParseStr(SaxSt, failAt))

\* an iteration of the loop of the innermost sax parse_object call
SaxParseObjectStep ==
    /\ phase = "sax"
    /\ sres.status = "running"
    /\ Last(sstack).fn = "object"
    /\ \E failAt \in FailChoices : SetSax(SaxParseObject(SaxSt, failAt))

\* an iteration of the loop of the innermost sax parse_array call
SaxParseArrayStep ==
    /\ phase = "sax"
    /\ sres.status = "running"
    /\ Last(sstack).fn = "array"
    /\ \E failAt \in FailChoices : SetSax(SaxParseArray(SaxSt, failAt))

\* the feature flag matters only to parse_numeric, which an input without a
\* digit never reaches with an accepted fragment
Init ==
    /\ input \in Inputs
    /\ mixed_numerics \in (IF HasNumber(input) THEN BOOLEAN ELSE {FALSE})
    /\ mode \in {"pair", "cancel"}
    /\ phase = IF mode = "pair" THEN "dom" ELSE "sax"
    /\ dlex = NewLexer
    /\ dstack = <<>>
    /\ dres = Idle
    /\ dvalue = NoValue
    /\ slex = NewLexer
    /\ sstack = <<>>
    /\ pointer = EmptyPointer
    /\ events = <<>>
    /\ sres = Idle
    /\ ptr = EmptyPointer
    /\ ptrlog = <<>>
    /\ lex = NewLexer
    /\ toks = <<>>
    /\ rhs = EmptyPointer
    /\ scanner = NewScanner
    /\ scanned = <<>>

Next ==
    \/ DomParseStrCall
    \/ DomParseObjectStep
    \/ DomParseArrayStep
    \/ SaxParseStrCall
    \/ SaxParseObjectStep
    \/ SaxParseArrayStep

Spec == Init /\ [][Next]_vars

-----------------------------------------------------------------------------
(* A JsonPointer on its own: any sequence of push_name, push_index and pop  *)
(* on JsonPointer::default(); ptrlog is the sequence of the calls made.     *)

MaxPtrOps == 3

PointerNames ==
    { <<>>, <<"a">>, <<"/">>, <<"~">>, <<"\"">>, <<"~", "0">>, <<"~", "1">>,
      <<"~", "0", "1">>, <<"0", "1">>, <<"~", "~">>, <<"/", "/">>, <<"~", "/">>,
      <<"/", "~">>, <<"a", "/", "b">>, <<"c", "~", "d">>, <<"\"", "a", "\"">>,
      <<"\"", "~", "\"", "/">> }

PointerIndexes == {0, 3, 10}

IdleRun ==
    /\ input = <<>>
    /\ mixed_numerics = FALSE
    /\ dlex = NewLexer
    /\ dstack = <<>>
    /\ dres = Idle
    /\ dvalue = NoValue
    /\ slex = NewLexer
    /\ sstack = <<>>
    /\ pointer = EmptyPointer
    /\ events = <<>>
    /\ sres = Idle

InitPtr ==
    /\ IdleRun
    /\ mode = "pointer"
    /\ phase = "pointer"
    /\ ptr = EmptyPointer
    /\ ptrlog = <<>>
    /\ lex = NewLexer
    /\ toks = <<>>
    /\ rhs = EmptyPointer
    /\ scanner = NewScanner
    /\ scanned = <<>>

PtrCall(op, p) ==
    /\ mode = "pointer"
    /\ Len(ptrlog) < MaxPtrOps
    /\ ptr' = p
    /\ ptrlog' = Append(ptrlog, op)
    /\ UNCHANGED <<input, mixed_numerics, mode, phase, dlex, dstack, dres, dvalue,
                   slex, sstack, pointer, events, sres, lex, toks,
                   rhs, scanner, scanned>>

PtrPushName ==
    \E name \in PointerNames :
        PtrCall([op |-> "push_name", name |-> name, index |-> 0], PushName(ptr, name))

PtrPushIndex ==
    \E i \in PointerIndexes :
        PtrCall([op |-> "push_index", name |-> <<>>, index |-> i], PushIndex(ptr, i))

PtrPop == PtrCall([op |-> "pop", name |-> <<>>, index |-> 0], Pop(ptr))

NextPtr ==
    \/ PtrPushName
    \/ PtrPushIndex
    \/ PtrPop

SpecPtr == InitPtr /\ [][NextPtr]_vars

-----------------------------------------------------------------------------
(* A Lexer on its own: consume is called until it fails, MaxConsume times   *)
(* at most; toks is the sequence of its results.                            *)

MaxLexLen == 4

MaxConsume == 4

LexAlphabet == {"\"", "\\", "a", "n", "1", "0", "-", ".", " ", "\n"}

\* the texts over LexAlphabet of length n at most
Texts(n) == UNION {[1..k -> LexAlphabet] : k \in 0..n}

LexDocuments ==
    { <<"\"", "\\", "u", "1", "2", "a", "F", "\"">>,
      <<"\"", "\\", "u", "1", "2", "g", "F", "\"">>,
      <<"\"", "a", "\\", "\"", "b", "\\", "\\", "c", "\"", " ", "1">>,
      <<"\"", "\\", "q", "\"">>,
      <<"\"", "a", "b", "c">>,
      <<"[", "\"", "x", "\"", ",", " ", "\"", "\\", "t", "y", "\"", "]">>,
      <<"{", "\"", "k", "\"", ":", "\"", "\"", "}">>,
      <<"1", "2", "3", "a", "b", "c">>,
      <<"n", "u", "l", "l", " ", "t", "r", "u", "e", " ", "f", "a", "l", "s", "e">> }

\* the literals with one scalar replaced, alone and between other tokens
LiteralSlips == {"x", " ", "\n", "u", "e"}

LiteralLeads == {<<>>, <<" ">>, <<"[">>}

LiteralTails == {<<>>, <<"t", "r", "u", "e">>, <<",">>}

SlippedLiterals(pattern) ==
    {[pattern EXCEPT ![k] = c] : k \in 2..Len(pattern), c \in LiteralSlips}

LiteralTexts ==
    {lead \o lit \o tail :
        lead \in LiteralLeads,
        lit \in SlippedLiterals(NULL_PATTERN) \cup SlippedLiterals(TRUE_PATTERN)
                \cup SlippedLiterals(FALSE_PATTERN),
        tail \in LiteralTails}

LiteralDocuments ==
    { <<"f", "a", "l", "s", "e", "t", "r", "u", "e", "f", "a", "l", "s", "e">>,
      <<"t", "r", "u", "e", " ", "f", "a", "r", "s", "e">>,
      <<"n", "u", "l", "l", "n", "u", "l", "l", "\n", "f", "a", "l", "s", "e", "1">>,
      <<"t", "r", "u", "e", "n", "u", "l", "x">> }

MaxNumLen == 5

NumAlphabet == {"-", "0", "1", ".", "e", "+", " "}

\* the texts over NumAlphabet of length n at most
NumTexts(n) == UNION {[1..k -> NumAlphabet] : k \in 0..n}

MaxEscLen == 5

EscAlphabet == {"1", "a", "n", "\""}

\* the texts over EscAlphabet of length n at most
EscTexts(n) == UNION {[1..k -> EscAlphabet] : k \in 0..n}

\* a string that opens with a unicode escape
UnicodeTexts == {<<"\"", "\\", "u">> \o s : s \in EscTexts(MaxEscLen)}

NumDocuments ==
    { <<"1", "e", "+", "5", ",">>,
      <<"1", "E", "-", "1", "]">>,
      <<"1", "2", "}">>,
      <<"1", ".", "5", "\r">>,
      <<"-", "1", "\t", "2">>,
      <<"0", "E", "+", "1", "\n">>,
      <<"0", "E", "1">>,
      <<"0", ",">>,
      <<"0", "]", "1">>,
      <<"0", "\r">>,
      <<"0", "x">>,
      <<"-", ",">>,
      <<"-", "]">>,
      <<"-", "\r", "1">>,
      <<"-", "a">>,
      <<"-", "0", "e", "+", "1", " ">>,
      <<"1", "e", "+", "1", "E", "2">>,
      <<"1", ".", "5", "e", "-", "1", "0", ".", "2">>,
      <<"[", "-", "0", ".", "5", ".", "]">>,
      <<"[", "1", "2", "e">>,
      <<" ", "[", ",", "\"", "a", "\\">>,
      <<"{", ":", "f", "a", "l", "s">>,
      <<"[", "t", "r", "u">>,
      <<"n", "u">>,
      <<"t", "x", "y">>,
      <<"7", "Z">>,
      <<"-", "0", ".", "1", ".">>,
      <<"1", "e", "+", "1", "e">>,
      <<"0", "e", "+", "1", " ">>,
      <<"\"", "\\", "\"", "\\", "\\", "\"", "x">>,
      <<"\"", "a", " ", "\\", "\\", "\\", "q", "\"">>,
      <<"1", "0", "b">>,
      <<"\"", "\\", "/", "\\", "b", "\\", "f", "\\", "r", "\\", "t", "\\", "u", "0", "0", "e", "9", " ", "x", "\"">>,
      <<"\"", "a", "\\", "u", "1", "2", "\"">>,
      <<"\"", "\\", "x", "\"">>,
      <<"\"", "a", "b", "\\", "0", "\"">>,
      <<"\"", "\\", "\\", "\\", "u", "A", "b", "C", "d", "\\", "\"", "\"", "1">>,
      [I64_MAX_DIGITS EXCEPT ![Len(I64_MAX_DIGITS)] = "8"] \o <<",">>,   \* i64::MAX + 1
      <<"-">> \o [I64_MIN_DIGITS EXCEPT ![Len(I64_MIN_DIGITS)] = "9"] \o <<" ">>,   \* i64::MIN - 1
      I64_MAX_DIGITS \o <<"0", "]">>,   \* twenty digits
      <<"1", "e", "+", ",">>,
      <<"1", "e", "-", "1", ".", "5", " ">> }

\* the decimal value of a fragment with this many digits is within the
\* integers of the model
MaxDigits == 9

\* the builds a text is lexed with: both when it holds a number, and the
\* build with mixed_numerics only when the number is too long for the model
\* to hold the value of the f64 that fast_float gives it
FeatureChoices(text) ==
    IF ~HasNumber(text) THEN {FALSE}
    ELSE IF \E i \in 1..Len(text) : DigitRun(text, i) > MaxDigits THEN {TRUE}
    ELSE BOOLEAN

\* numbers with each scalar that can end them, on the first line and on the
\* second, at the end of the input and before further tokens
EndedNumbers ==
    { <<"1">>, <<"0">>, <<"-", "1">>, <<"1", "2">>, <<"0", ".", "5">>,
      <<"1", "e", "+", "1">> }

NumberEndings == {",", "]", "}", ":", " ", "\t", "\n", "\r"}

NumberLeads == {<<>>, <<"\n">>, <<"[", "\r", " ">>}

NumberTails == {<<>>, <<"1", " ">>, <<"\n", "]">>}

TerminatorTexts ==
    {lead \o num \o <<t>> \o tail :
        lead \in NumberLeads, num \in EndedNumbers, t \in NumberEndings,
        tail \in NumberTails}

LexInputs == Texts(MaxLexLen) \cup LexDocuments \cup NumTexts(MaxNumLen) \cup UnicodeTexts
             \cup NumDocuments \cup LiteralTexts \cup LiteralDocuments
             \cup TerminatorTexts

InitLex ==
    /\ input \in LexInputs
    /\ mixed_numerics \in FeatureChoices(input)
    /\ mode = "lexer"
    /\ phase = "lexer"
    /\ dlex = NewLexer
    /\ dstack = <<>>
    /\ dres = Idle
    /\ dvalue = NoValue
    /\ slex = NewLexer
    /\ sstack = <<>>
    /\ pointer = EmptyPointer
    /\ events = <<>>
    /\ sres = Idle
    /\ ptr = EmptyPointer
    /\ ptrlog = <<>>
    /\ lex = NewLexer
    /\ toks = <<>>
    /\ rhs = EmptyPointer
    /\ scanner = NewScanner
    /\ scanned = <<>>

\* the lexer after a call of consume, and its result
SetLex(r) ==
    /\ lex' = r.lx
    /\ toks' = Append(toks, [kind |-> r.kind, tok |-> r.tok, span |-> r.span,
                             err |-> r.err])

\* one call of Lexer::consume
LexConsume ==
    /\ mode = "lexer"
    /\ Len(toks) < MaxConsume
    /\ IF toks = <<>> THEN TRUE ELSE Last(toks).kind = "tok"
    /\ SetLex(Consume(lex))
    /\ UNCHANGED <<input, mixed_numerics, mode, phase, dlex, dstack, dres, dvalue,
                   slex, sstack, pointer, events, sres, ptr, ptrlog,
                   rhs, scanner, scanned>>

NextLex == LexConsume

SpecLex == InitLex /\ [][NextLex]_vars

-----------------------------------------------------------------------------
(* The concatenation of two JsonPointers: self and rhs are pointers built   *)
(* by at most MaxOperandLen calls of push_name and push_index on            *)
(* JsonPointer::default().                                                  *)

MaxOperandLen == 2

OperandNames == {<<"a">>, <<"b">>, <<"a", "/", "b">>}

OperandIndexes == {0}

RECURSIVE Pushed(_)
\* the pointers that n pushes at most build
Pushed(n) ==
    IF n = 0 THEN {EmptyPointer}
    ELSE Pushed(n - 1)
         \cup {PushName(p, name) : p \in Pushed(n - 1), name \in OperandNames}
         \cup {PushIndex(p, i) : p \in Pushed(n - 1), i \in OperandIndexes}

InitAdd ==
    /\ IdleRun
    /\ mode = "add"
    /\ phase = "add"
    /\ ptr \in Pushed(MaxOperandLen)
    /\ rhs \in Pushed(MaxOperandLen)
    /\ ptrlog = <<>>
    /\ lex = NewLexer
    /\ toks = <<>>
    /\ scanner = NewScanner
    /\ scanned = <<>>

\* self + &rhs
PtrAdd ==
    /\ mode = "add"
    /\ ptrlog = <<>>
    /\ ptr' = Add(ptr, rhs)
    /\ ptrlog' = <<[op |-> "add", name |-> <<>>, index |-> 0]>>
    /\ UNCHANGED <<input, mixed_numerics, mode, phase, dlex, dstack, dres, dvalue,
                   slex, sstack, pointer, events, sres, lex, toks,
                   rhs, scanner, scanned>>

NextAdd == PtrAdd

SpecAdd == InitAdd /\ [][NextAdd]_vars

-----------------------------------------------------------------------------
(* A Scanner on its own: any sequence of at most MaxScanOps calls of        *)
(* with_mode, consume, discard and lookahead on Scanner::new over the texts *)
(* of ScanInputs; scanned is the sequence of the calls made, each with its  *)
(* result and with the lexemes it took out of the scanner.                  *)

MaxScanOps == 3

\* the counts of lookahead run from 1 to MaxCount
MaxCount == 4

DiscardCounts == {1, 2}

ScannerModes == {"IgnoreWhitespace", "ProduceWhitespace"}

ScanInputs ==
    { <<>>,
      <<"1", "2", "3", "4", "5", "6", "7", "8", "9">>,
      <<"{", "}", "[", "]", ",", ":">>,
      <<" ", "{", " ", "}", "\n", "[", "]", "+", "-", " ">>,
      <<"\\", "\"", "'", " ", "\t">>,
      <<"1", "\n", "2">>,
      <<" ", "\n", " ">>,
      <<"a", " ", "b">>,
      <<"\n", "\n", "1", ".", "5">>,
      <<"x">>,
      <<" ">>,
      <<"?", "\r", "\n", "Z">> }

InitScan ==
    /\ input \in ScanInputs
    /\ mixed_numerics = FALSE
    /\ mode = "scanner"
    /\ phase = "scanner"
    /\ dlex = NewLexer
    /\ dstack = <<>>
    /\ dres = Idle
    /\ dvalue = NoValue
    /\ slex = NewLexer
    /\ sstack = <<>>
    /\ pointer = EmptyPointer
    /\ events = <<>>
    /\ sres = Idle
    /\ ptr = EmptyPointer
    /\ ptrlog = <<>>
    /\ lex = NewLexer
    /\ toks = <<>>
    /\ rhs = EmptyPointer
    /\ scanner = NewScanner
    /\ scanned = <<>>

\* a call on the scanner: its name and argument, its result r and the
\* lexemes it took out of the scanner (history fields)
ScanCall(op, count, r, taken) ==
    /\ mode = "scanner"
    /\ Len(scanned) < MaxScanOps
    /\ scanner' = r.sc
    /\ scanned' = Append(scanned, [op |-> op, count |-> count, ok |-> r.ok,
                                   lex |-> r.lex, taken |-> taken])
    /\ UNCHANGED <<input, mixed_numerics, mode, phase, dlex, dstack, dres, dvalue,
                   slex, sstack, pointer, events, sres, ptr, ptrlog, lex, toks, rhs>>

\* the result of a call that returns no lexeme
Returned(sc) == [ScanErr(sc) EXCEPT !.ok = TRUE]

RECURSIVE Discarded(_, _)
\* the lexemes that the consume calls of discard(count) return
Discarded(sc, count) ==
    IF count = 0 THEN <<>>
    ELSE <<ScannerConsume(sc).lex>> \o Discarded(ScannerConsume(sc).sc, count - 1)

\* scanner.with_mode(m)
ScanWithMode ==
    \E m \in ScannerModes :
        ScanCall("with_mode", 0, Returned([scanner EXCEPT !.mode = m]), <<>>)

\* scanner.consume()
ScanConsume ==
    ScanCall("consume", 0, ScannerConsume(scanner), <<ScannerConsume(scanner).lex>>)

\* scanner.discard(count)
ScanDiscard ==
    \E count \in DiscardCounts :
        ScanCall("discard", count, Returned(Discard(scanner, count)),
                 Discarded(scanner, count))

\* scanner.lookahead(count)
ScanLookahead ==
    \E count \in 1..MaxCount :
        ScanCall("lookahead", count, Lookahead(scanner, count), <<>>)

NextScan ==
    \/ ScanWithMode
    \/ ScanConsume
    \/ ScanDiscard
    \/ ScanLookahead

SpecScan == InitScan /\ [][NextScan]_vars

-----------------------------------------------------------------------------
(* Valid JSON text (RFC 8259), the yardstick of the claims about valid     *)
(* documents.  Each recogniser takes the index of the first scalar of a    *)
(* production and gives the index after its last scalar, or 0.             *)

At(s, i) == IF 1 <= i /\ i <= Len(s) THEN s[i] ELSE NoChar

JsonWhitespace == {" ", "\t", "\n", "\r"}

\* scalars that may not appear unescaped in a string, among those of this model
JsonControl == {"\t", "\n", "\r", "\f"}

JsonEscapes == {"\"", "\\", "/", "b", "f", "n", "r", "t"}

RECURSIVE JsonSkipWs(_, _)
JsonSkipWs(s, i) == IF At(s, i) \in JsonWhitespace THEN JsonSkipWs(s, i + 1) ELSE i

\* number = [ minus ] int [ frac ] [ exp ]
JsonNumberEnd(s, i) ==
    LET i1 == IF At(s, i) = "-" THEN i + 1 ELSE i
        i2 == IF At(s, i1) = "0" THEN i1 + 1
              ELSE IF At(s, i1) \in NonZeroDigit THEN i1 + DigitRun(s, i1)
              ELSE 0
        nf == DigitRun(s, i2 + 1)
        i3 == IF At(s, i2) = "." THEN (IF nf = 0 THEN 0 ELSE i2 + 1 + nf) ELSE i2
        i4 == IF At(s, i3 + 1) \in {"+", "-"} THEN i3 + 2 ELSE i3 + 1
        ne == DigitRun(s, i4)
    IN  IF i2 = 0 \/ i3 = 0 THEN 0
        ELSE IF At(s, i3) \in {"e", "E"} THEN (IF ne = 0 THEN 0 ELSE i4 + ne)
        ELSE i3

RECURSIVE JsonCharsEnd(_, _)
\* the characters of a string and its closing quotation mark
JsonCharsEnd(s, i) ==
    LET c == At(s, i) IN
    IF c = "\"" THEN i + 1
    ELSE IF c = NoChar \/ c \in JsonControl THEN 0
    ELSE IF c = "\\"
    THEN IF At(s, i + 1) \in JsonEscapes THEN JsonCharsEnd(s, i + 2)
         ELSE IF At(s, i + 1) = "u" /\ \A k \in 2..5 : At(s, i + k) \in AsciiHexDigit
         THEN JsonCharsEnd(s, i + 6)
         ELSE 0
    ELSE JsonCharsEnd(s, i + 1)

JsonStringEnd(s, i) == IF At(s, i) = "\"" THEN JsonCharsEnd(s, i + 1) ELSE 0

JsonLiteralEnd(s, i, pattern) ==
    IF SubSeq(s, i, i + Len(pattern) - 1) = pattern THEN i + Len(pattern) ELSE 0

RECURSIVE JsonValueEnd(_, _)
RECURSIVE JsonElementsEnd(_, _)
RECURSIVE JsonMembersEnd(_, _)

\* value *( ws "," ws value ) ws "]"
JsonElementsEnd(s, i) ==
    LET v == JsonValueEnd(s, i)
        k == JsonSkipWs(s, v)
    IN  IF v = 0 THEN 0
        ELSE IF At(s, k) = "," THEN JsonElementsEnd(s, JsonSkipWs(s, k + 1))
        ELSE IF At(s, k) = "]" THEN k + 1
        ELSE 0

\* member *( ws "," ws member ) ws "}", member = string ws ":" ws value
JsonMembersEnd(s, i) ==
    LET n == JsonStringEnd(s, i)
        c == JsonSkipWs(s, n)
        v == JsonValueEnd(s, JsonSkipWs(s, c + 1))
        k == JsonSkipWs(s, v)
    IN  IF n = 0 \/ At(s, c) # ":" \/ v = 0 THEN 0
        ELSE IF At(s, k) = "," THEN JsonMembersEnd(s, JsonSkipWs(s, k + 1))
        ELSE IF At(s, k) = "}" THEN k + 1
        ELSE 0

JsonValueEnd(s, i) ==
    LET c == At(s, i)
        j == JsonSkipWs(s, i + 1)
    IN  CASE c = "[" -> IF At(s, j) = "]" THEN j + 1 ELSE JsonElementsEnd(s, j)
          [] c = "{" -> IF At(s, j) = "}" THEN j + 1 ELSE JsonMembersEnd(s, j)
          [] c = "\"" -> JsonStringEnd(s, i)
          [] c = "n" -> JsonLiteralEnd(s, i, NULL_PATTERN)
          [] c = "t" -> JsonLiteralEnd(s, i, TRUE_PATTERN)
          [] c = "f" -> JsonLiteralEnd(s, i, FALSE_PATTERN)
          [] c = "-" \/ c \in AsciiDigit -> JsonNumberEnd(s, i)
          [] OTHER -> 0

\* a valid JSON text whose root is an object or an array
IsValidJson(s) ==
    LET i == JsonSkipWs(s, 1)
        e == JsonValueEnd(s, i)
    IN  /\ At(s, i) \in {"{", "["}
        /\ e # 0
        /\ JsonSkipWs(s, e) = Len(s) + 1

-----------------------------------------------------------------------------
(* The event stream, as the claims read it                                 *)

StartKinds == {"StartObject", "StartArray"}

EndKinds == {"EndObject", "EndArray"}

ScalarKinds == {"String", "Float", "Integer", "Boolean", "Null"}

EvKind(i) == IF 1 <= i /\ i <= Len(events) THEN events[i].matched.t ELSE "None"

EndOf(kind) == IF kind = "StartObject" THEN "EndObject" ELSE "EndArray"

RECURSIVE OpenerFrom(_, _)
\* scanning back from event j, the Start event that is still open after
\* skipping depth closed containers (0 when there is none)
OpenerFrom(j, depth) ==
    IF j = 0 THEN 0
    ELSE IF EvKind(j) \in EndKinds THEN OpenerFrom(j - 1, depth + 1)
    ELSE IF EvKind(j) \in StartKinds
    THEN (IF depth = 0 THEN j ELSE OpenerFrom(j - 1, depth - 1))
    ELSE OpenerFrom(j - 1, depth)

\* the Start event of the container event i lies directly in; for an End event,
\* the Start event it closes
Opener(i) == OpenerFrom(i - 1, 0)

RECURSIVE EvValueEnd(_)
RECURSIVE EvMembersEnd(_)
RECURSIVE EvElementsEnd(_)

\* the index after the events of the value that starts at event i, 0 when the
\* events from i on are not those of one value
EvValueEnd(i) ==
    CASE EvKind(i) \in ScalarKinds -> i + 1
      [] EvKind(i) = "StartObject" -> EvMembersEnd(i + 1)
      [] EvKind(i) = "StartArray" -> EvElementsEnd(i + 1)
      [] OTHER -> 0

\* ( ObjectKey value )* EndObject
EvMembersEnd(i) ==
    IF EvKind(i) = "EndObject" THEN i + 1
    ELSE IF EvKind(i) = "ObjectKey"
    THEN LET v == EvValueEnd(i + 1) IN IF v = 0 THEN 0 ELSE EvMembersEnd(v)
    ELSE 0

\* value* EndArray
EvElementsEnd(i) ==
    IF EvKind(i) = "EndArray" THEN i + 1
    ELSE LET v == EvValueEnd(i) IN IF v = 0 THEN 0 ELSE EvElementsEnd(v)

RECURSIVE Flatten(_)
RECURSIVE FlattenMembers(_)
RECURSIVE FlattenElements(_)

\* the depth-first, left-to-right flattening of a JsonValue into matches
Flatten(v) ==
    CASE v.t = "Object" -> <<Match("StartObject")>> \o FlattenMembers(v.kids)
                           \o <<Match("EndObject")>>
      [] v.t = "Array" -> <<Match("StartArray")>> \o FlattenElements(v.kids)
                          \o <<Match("EndArray")>>
      [] OTHER -> <<[t |-> v.t, s |-> v.s, n |-> v.n, e |-> v.e, b |-> v.b]>>

FlattenMembers(pairs) ==
    IF pairs = <<>> THEN <<>>
    ELSE <<ObjectKeyMatch(pairs[1].key)>> \o Flatten(pairs[1].value)
         \o FlattenMembers(Tail(pairs))

FlattenElements(values) ==
    IF values = <<>> THEN <<>>
    ELSE Flatten(values[1]) \o FlattenElements(Tail(values))

Matches(evs) == [i \in 1..Len(evs) |-> evs[i].matched]

\* the first token of the input
FirstToken == Consume(NewLexer)

RootIsContainer == FirstToken.kind = "tok" /\ FirstToken.tok.t \in StartKinds

PairDone == phase = "done" /\ mode = "pair"

-----------------------------------------------------------------------------
(* Claims about the two front-ends                                         *)

\* C1 (as claimed): for every valid JSON document whose root is an object or
\* an array, the DOM parser returns a tree and the SAX parser returns Ok after
\* an event stream that starts with StartOfInput and ends with the End event of
\* the root.  The code rejects valid documents: see C1 in RESULTS.json.
C1_ValidDocumentsParse ==
    (PairDone /\ IsValidJson(input)) =>
        /\ dres.status = "ok"
        /\ dvalue.t \in {"Object", "Array"}
        /\ sres.status = "ok"
        /\ Len(events) >= 3
        /\ EvKind(1) = "StartOfInput"
        /\ EvKind(2) \in StartKinds
        /\ EvKind(Len(events)) = EndOf(EvKind(2))

\* C2: with a callback that never fails, on a non-empty input the SAX parse
\* succeeds exactly when the DOM parse succeeds, and then the matches of the
\* events after StartOfInput are the flattening of the DOM tree.
C2_SaxIsFlattenedDom ==
    (PairDone /\ input # <<>>) =>
        /\ (sres.status = "ok") <=> (dres.status = "ok")
        /\ sres.status = "ok" =>
              /\ events # <<>>
              /\ EvKind(1) = "StartOfInput"
              /\ Matches(Tail(events)) = Flatten(dvalue)

\* both front-ends succeeded on a document with an object inside an array
\* inside an object
C2_Witness ==
    /\ PairDone
    /\ sres.status = "ok"
    /\ dres.status = "ok"
    /\ \E i \in 1..Len(events) :
          /\ EvKind(i) = "StartObject"
          /\ Opener(i) # 0
          /\ EvKind(Opener(i)) = "StartArray"
          /\ Opener(Opener(i)) # 0
          /\ EvKind(Opener(Opener(i))) = "StartObject"

\* C3: on a successful SAX parse the events come in document order and are
\* properly nested: after StartOfInput they are the events of one container,
\* ( StartObject ( ObjectKey value )* EndObject | StartArray value* EndArray ),
\* every End event closes the innermost open Start event of its kind, and there
\* are as many Start events as End events.
C3_EventsNested ==
    sres.status = "ok" =>
        /\ EvKind(2) \in StartKinds
        /\ EvValueEnd(2) = Len(events) + 1
        /\ \A i \in 2..Len(events) :
              /\ EvKind(i) \in EndKinds =>
                    /\ Opener(i) # 0
                    /\ EvKind(i) = EndOf(EvKind(Opener(i)))
              /\ i < Len(events) =>
                    events[i].span.start.absolute < events[i + 1].span.start.absolute
        /\ Cardinality({i \in 1..Len(events) : EvKind(i) \in StartKinds})
              = Cardinality({i \in 1..Len(events) : EvKind(i) \in EndKinds})

\* a successful parse of an object with two members, the first one a container
C3_Witness ==
    /\ sres.status = "ok"
    /\ \E i, j \in 1..Len(events) :
          /\ i < j
          /\ EvKind(i) = "ObjectKey"
          /\ EvKind(j) = "ObjectKey"
          /\ Opener(i) = Opener(j)
          /\ EvKind(i + 1) \in StartKinds

C5_CallbackErrorStops ==
    \A i \in 1..Len(events) :
        events[i].returned = "Err" =>
            /\ i = Len(events)
            /\ sres = ResErr(CallbackError)
            /\ phase = "done"
            /\ slex.calls = events[i].consumed

\* the callback failed on a scalar two containers deep, with input left over
C5_Witness ==
    /\ events # <<>>
    /\ Last(events).returned = "Err"
    /\ EvKind(Len(events)) \in ScalarKinds
    /\ Opener(Len(events)) # 0
    /\ Opener(Opener(Len(events))) # 0
    /\ slex.pos < Len(input)

\* the segment RFC 6901 writes for a member name, scalar by scalar; the quotes
\* that delimit the key text are not part of the segment
EncodeScalar(c) ==
    CASE c = "~" -> <<"~", "0">>
      [] c = "/" -> <<"~", "1">>
      [] c = "\"" -> <<>>
      [] OTHER -> <<c>>

RECURSIVE EncodeSegment(_)
EncodeSegment(name) ==
    IF name = <<>> THEN <<>>
    ELSE EncodeScalar(name[1]) \o EncodeSegment(Tail(name))

\* C6: ObjectKey(k) is delivered with the pointer of the enclosing object
\* followed by "/" and the encoded k, and so is the first event of the value
\* of k; the next ObjectKey of that object carries its own key in place of k,
\* and the EndObject of that object carries the pointer of the object again.
C6_KeyPointer ==
    \A i \in 1..Len(events) :
        /\ EvKind(i) = "ObjectKey" =>
              /\ Opener(i) # 0
              /\ EvKind(Opener(i)) = "StartObject"
              /\ events[i].hasPointer
              /\ events[i].pointer = events[Opener(i)].pointer \o <<"/">>
                                        \o EncodeSegment(events[i].matched.s)
              /\ i < Len(events) =>
                    /\ events[i + 1].hasPointer
                    /\ events[i + 1].pointer = events[i].pointer
        /\ EvKind(i) = "EndObject" =>
              /\ Opener(i) # 0
              /\ events[i].hasPointer
              /\ events[i].pointer = events[Opener(i)].pointer

\* an object below the root has had two keys, the second one holding a "/",
\* and has been closed
C6_Witness ==
    \E i, j, k \in 1..Len(events) :
        /\ i < j /\ j < k
        /\ EvKind(i) = "ObjectKey"
        /\ EvKind(j) = "ObjectKey"
        /\ EvKind(k) = "EndObject"
        /\ Opener(i) = Opener(j)
        /\ Opener(k) = Opener(i)
        /\ Opener(i) > 2
        /\ \E p \in 1..Len(events[j].matched.s) : events[j].matched.s[p] = "/"

\* the scalars of the input that the events from j to i do not account for:
\* those outside every scalar and key, and outside every container opened
\* after event j
Covered(j, i, p) ==
    \/ \E k \in (j + 1)..(i - 1) :
          /\ EvKind(k) \in ScalarKinds \cup {"ObjectKey"}
          /\ events[k].span.start.absolute <= p
          /\ p <= events[k].span.end.absolute
    \/ Cardinality({k \in (j + 1)..(i - 1) :
                       EvKind(k) \in StartKinds /\ events[k].span.start.absolute < p})
          # Cardinality({k \in (j + 1)..(i - 1) :
                       EvKind(k) \in EndKinds /\ events[k].span.start.absolute < p})

\* the commas of the array opened by event j that come before event i
CommasBefore(j, i) ==
    Cardinality({p \in (events[j].span.start.absolute + 1)
                       ..(events[i].span.start.absolute - 1) :
                    input[p] = "," /\ ~Covered(j, i, p)})

\* C7: the event of an array element (a scalar event, or the Start event of a
\* nested container) is delivered with the pointer of the enclosing array
\* followed by "/" and i in decimal, i being the number of commas of that
\* array that come before the element.
C7_IndexPointer ==
    \A i \in 1..Len(events) :
        (/\ EvKind(i) \in ScalarKinds \cup StartKinds
         /\ Opener(i) # 0
         /\ EvKind(Opener(i)) = "StartArray") =>
            /\ events[i].hasPointer
            /\ events[i].pointer = events[Opener(i)].pointer \o <<"/">>
                                      \o Decimal(CommasBefore(Opener(i), i))

\* an element after a comma in an array that is itself an element after a
\* comma and after a string that holds a comma
C7_Witness ==
    \E i \in 1..Len(events) :
        /\ EvKind(i) \in ScalarKinds
        /\ Opener(i) > 2
        /\ EvKind(Opener(i)) = "StartArray"
        /\ EvKind(Opener(Opener(i))) = "StartArray"
        /\ CommasBefore(Opener(i), i) >= 1
        /\ CommasBefore(Opener(Opener(i)), Opener(i)) >= 1
        /\ \E k \in 1..(Opener(i) - 1) :
              /\ EvKind(k) = "String"
              /\ \E p \in 1..Len(events[k].matched.s) : events[k].matched.s[p] = ","

\* C8: every End event is delivered with the pointer its Start event was
\* delivered with, at every depth; for the root both are the empty pointer.
C8_PointerBalance ==
    /\ \A i \in 1..Len(events) :
          EvKind(i) \in EndKinds =>
              /\ Opener(i) # 0
              /\ events[i].hasPointer
              /\ events[Opener(i)].hasPointer
              /\ events[i].pointer = events[Opener(i)].pointer
    /\ Len(events) >= 2 => events[2].pointer = <<>>
    /\ sres.status = "ok" => Last(events).pointer = <<>>

\* a container under a key of an object below the root has been closed, and
\* so has the root
C8_Witness ==
    /\ sres.status = "ok"
    /\ \E i \in 1..Len(events) :
          /\ EvKind(i) \in EndKinds
          /\ Opener(i) > 2
          /\ EvKind(Opener(i) - 1) = "ObjectKey"
          /\ Opener(Opener(i)) > 2

-----------------------------------------------------------------------------
(* Claims about JsonPointer                                                *)

RECURSIVE LogSegments(_)
\* the segments the calls of a log have pushed and not popped
LogSegments(log) ==
    IF log = <<>> THEN <<>>
    ELSE LET before == LogSegments(Front(log))
             c == Last(log)
         IN  IF c.op = "pop" THEN (IF before = <<>> THEN before ELSE Front(before))
             ELSE Append(before, c)

SegmentText(c) == IF c.op = "push_index" THEN Decimal(c.index) ELSE EncodeSegment(c.name)

RECURSIVE SlashJoined(_)
\* every segment after a "/"
SlashJoined(segs) ==
    IF segs = <<>> THEN <<>>
    ELSE <<"/">> \o SegmentText(segs[1]) \o SlashJoined(Tail(segs))

RECURSIVE ReplacePair(_, _, _, _)
\* s with every occurrence of the two scalars a b replaced by the scalar by
ReplacePair(s, a, b, by) ==
    IF Len(s) < 2 THEN s
    ELSE IF s[1] = a /\ s[2] = b THEN <<by>> \o ReplacePair(SubSeq(s, 3, Len(s)), a, b, by)
    ELSE <<s[1]>> \o ReplacePair(Tail(s), a, b, by)

\* RFC 6901 decoding of a segment: "~1" to "/" and then "~0" to "~"
DecodeSegment(s) == ReplacePair(ReplacePair(s, "~", "1", "/"), "~", "0", "~")

HasQuote(name) == \E i \in 1..Len(name) : name[i] = "\""

\* C9: as_str() is "" for a pointer without segments and otherwise every pushed
\* segment after a "/", an index in decimal and a name with "~" as "~0" and "/"
\* as "~1" (its double quotes dropped); a name without a double quote is what
\* decoding its segment gives, so two such names that differ have segments that
\* differ.
C9_PointerSerialisation ==
    /\ AsStr(ptr) = SlashJoined(LogSegments(ptrlog))
    /\ LogSegments(ptrlog) = <<>> => AsStr(ptr) = <<>>
    /\ \A i \in 1..Len(ptrlog) :
          (ptrlog[i].op = "push_name" /\ ~HasQuote(ptrlog[i].name)) =>
              /\ ComponentToString(NameComponent(ptrlog[i].name))
                    = EncodeSegment(ptrlog[i].name)
              /\ DecodeSegment(ComponentToString(NameComponent(ptrlog[i].name)))
                    = ptrlog[i].name
              /\ \A j \in 1..Len(ptrlog) :
                    (/\ ptrlog[j].op = "push_name"
                     /\ ~HasQuote(ptrlog[j].name)
                     /\ ptrlog[j].name # ptrlog[i].name) =>
                        ComponentToString(NameComponent(ptrlog[j].name))
                           # ComponentToString(NameComponent(ptrlog[i].name))

\* push_name("a/b"), push_name("c~d") and push_index(10) have given /a~1b/c~0d/10
C9_Witness ==
    /\ Len(ptrlog) = 3
    /\ ptrlog[1].name = <<"a", "/", "b">>
    /\ ptrlog[2].name = <<"c", "~", "d">>
    /\ ptrlog[3].op = "push_index"
    /\ AsStr(ptr) = <<"/", "a", "~", "1", "b", "/", "c", "~", "0", "d", "/", "1", "0">>

-----------------------------------------------------------------------------
(* Claims about the lexer                                                  *)

\* the scalars of the input from absolute position a to b
InputText(a, b) == SubSeq(input, a, b)

\* C10 (as claimed): the text of a Str token is the scalars between its
\* opening and its closing quote, the quotes left out.  The code keeps the
\* quotes: see C10 in RESULTS.json.
C10_StrTextBetweenQuotes ==
    \A i \in 1..Len(toks) :
        (toks[i].kind = "tok" /\ toks[i].tok.t = "Str") =>
            toks[i].tok.s = InputText(toks[i].span.start.absolute + 1,
                                      toks[i].span.end.absolute - 1)

\* C10 (amended): the text of a Str token is the scalars of the input from its
\* opening quote to its closing quote, both quotes included, with every escape
\* sequence as it is written in the input.
C10_StrTextWithQuotes ==
    \A i \in 1..Len(toks) :
        (toks[i].kind = "tok" /\ toks[i].tok.t = "Str") =>
            /\ toks[i].span.start.absolute < toks[i].span.end.absolute
            /\ input[toks[i].span.start.absolute] = "\""
            /\ input[toks[i].span.end.absolute] = "\""
            /\ toks[i].tok.s = InputText(toks[i].span.start.absolute,
                                         toks[i].span.end.absolute)

\* a Str token has been returned for a string that holds an escape sequence
C10_Witness ==
    \E i \in 1..Len(toks) :
        /\ toks[i].kind = "tok"
        /\ toks[i].tok.t = "Str"
        /\ \E p \in 1..Len(toks[i].tok.s) : toks[i].tok.s[p] = "\\"

\* C11: when the input is exactly one valid JSON string literal, the first
\* consume returns a Str token whose text is the whole input, scalar for scalar.
C11_LiteralIsTokenText ==
    (JsonStringEnd(input, 1) = Len(input) + 1 /\ toks # <<>>) =>
        /\ toks[1].kind = "tok"
        /\ toks[1].tok.t = "Str"
        /\ toks[1].tok.s = input

\* the first consume has run on a string literal that holds a unicode escape
\* and a solidus escape
C11_Witness ==
    /\ toks # <<>>
    /\ JsonStringEnd(input, 1) = Len(input) + 1
    /\ \E p \in 1..Len(input) - 1 : input[p] = "\\" /\ input[p + 1] = "u"
    /\ \E p \in 1..Len(input) - 1 : input[p] = "\\" /\ input[p + 1] = "/"
    /\ toks[1].tok.s = input

\* the scalars that end a number: a terminator or ASCII whitespace
NumberEnders == NumericTerminator \cup AsciiWhitespace

HasFractionOrExponent(text) == \E i \in 1..Len(text) : text[i] \in {".", "e", "E"}

\* C12 (as claimed): a matched number is a token, an Integer exactly when
\* mixed_numerics is enabled and its text holds neither "." nor "e"/"E", a
\* Float otherwise.  Stated for the first consume on an input that opens with
\* an RFC 8259 number followed by a terminator or whitespace, when the number
\* matcher raises no error.
C12_NumberClassification ==
    (/\ toks # <<>>
     /\ JsonNumberEnd(input, 1) # 0
     /\ JsonNumberEnd(input, 1) <= Len(input)
     /\ input[JsonNumberEnd(input, 1)] \in NumberEnders
     /\ toks[1].kind # "err") =>
        /\ toks[1].kind = "tok"
        /\ toks[1].tok.t =
               IF mixed_numerics
                  /\ ~HasFractionOrExponent(SubSeq(input, 1, JsonNumberEnd(input, 1) - 1))
               THEN "Integer" ELSE "Float"

\* the first consume failed with the error `details`
FirstFails(details) ==
    /\ toks[1].kind = "err"
    /\ toks[1].err.source = "Lexer"
    /\ toks[1].err.details = details

\* C13 (as claimed): a number that starts with "-" and whose next scalar is
\* not an ASCII digit makes consume fail with InvalidNumericRepresentation,
\* whatever that scalar is.
C13_MinusNeedsDigit ==
    (/\ toks # <<>>
     /\ Len(input) >= 2
     /\ input[1] = "-"
     /\ input[2] \notin AsciiDigit) =>
        FirstFails("InvalidNumericRepresentation")

\* C14 (as claimed): a number that starts with "0" whose next scalar is not
\* ".", a terminator or ASCII whitespace makes consume fail with
\* InvalidNumericRepresentation.  The code hands an exponent letter after
\* the zero to the number loop: see C14 in RESULTS.json.
C14_ZeroThenPointOrEnd ==
    (/\ toks # <<>>
     /\ Len(input) >= 2
     /\ input[1] = "0"
     /\ input[2] \notin {"."} \cup NumberEnders) =>
        FirstFails("InvalidNumericRepresentation")

\* C14 (amended): a number that starts with "0" whose next scalar is not ".",
\* a terminator, ASCII whitespace or an exponent letter "e"/"E" makes consume
\* fail with InvalidNumericRepresentation.
C14_ZeroThenPointExponentOrEnd ==
    (/\ toks # <<>>
     /\ Len(input) >= 2
     /\ input[1] = "0"
     /\ input[2] \notin {".", "e", "E"} \cup NumberEnders) =>
        FirstFails("InvalidNumericRepresentation")

\* consume has failed on a zero followed by a digit, with the zero and the
\* digit as the fragment of the error
C14_Witness ==
    /\ toks # <<>>
    /\ Len(input) >= 3
    /\ input[1] = "0"
    /\ input[2] \in AsciiDigit
    /\ FirstFails("InvalidNumericRepresentation")
    /\ toks[1].err.frag = SubSeq(input, 1, 2)

\* the prefix of a number is accepted: a digit 1-9, a zero not followed by a
\* digit, a minus followed by a digit 1-9 or by "0."
NumPrefixOk(s) ==
    \/ At(s, 1) \in NonZeroDigit
    \/ At(s, 1) = "0" /\ At(s, 2) \notin AsciiDigit
    \/ At(s, 1) = "-" /\ At(s, 2) \in NonZeroDigit
    \/ At(s, 1) = "-" /\ At(s, 2) = "0" /\ At(s, 3) = "."

\* the prefix check has consumed a decimal point: "0." or "-0."
PrefixHasPoint(s) ==
    \/ At(s, 1) = "0" /\ At(s, 2) = "."
    \/ At(s, 1) = "-" /\ At(s, 2) = "0" /\ At(s, 3) = "."

\* the index of the first scalar of the body of a number, after its prefix
NumBodyStart(s) ==
    IF At(s, 1) = "-" THEN (IF PrefixHasPoint(s) THEN 4 ELSE 3)
    ELSE IF PrefixHasPoint(s) THEN 3 ELSE 2

RECURSIVE BodyFault(_, _, _, _)
\* what decides the body of a number read from index i on, with a "." (dot)
\* or an exponent (exp) already seen
BodyFault(s, i, dot, exp) ==
    IF At(s, i) = NoChar THEN "eof"
    ELSE IF At(s, i) \in AsciiDigit THEN BodyFault(s, i + 1, dot, exp)
    ELSE IF At(s, i) = "."
    THEN IF dot THEN "second point" ELSE BodyFault(s, i + 1, TRUE, exp)
    ELSE IF At(s, i) \in {"e", "E"}
    THEN IF exp THEN "second exponent"
         ELSE IF At(s, i + 1) = NoChar THEN "eof"
         ELSE IF At(s, i + 1) \in {"+", "-"} THEN BodyFault(s, i + 2, dot, TRUE)
         ELSE "unsigned exponent"
    ELSE IF At(s, i) \in NumberEnders THEN "end"
    ELSE "other"

NumberFault(s) == BodyFault(s, NumBodyStart(s), PrefixHasPoint(s), FALSE)

\* C15: in the body of a number a second ".", a second "e"/"E" and an
\* "e"/"E" not immediately followed by "+" or "-" each make consume fail with
\* InvalidNumericRepresentation; the "." of a prefix "0." or "-0." counts as
\* the first ".".
C15_OnePointOneSignedExponent ==
    (/\ toks # <<>>
     /\ NumPrefixOk(input)
     /\ NumberFault(input) \in {"second point", "second exponent", "unsigned exponent"}) =>
        FirstFails("InvalidNumericRepresentation")

\* consume has failed on a second "." after the prefix "-0." and some digits
C15_Witness ==
    /\ toks # <<>>
    /\ Len(input) >= 5
    /\ SubSeq(input, 1, 3) = <<"-", "0", ".">>
    /\ input[4] \in AsciiDigit
    /\ NumberFault(input) = "second point"
    /\ FirstFails("InvalidNumericRepresentation")

\* the ASCII alphabetic scalars
AsciiAlphabetic ==
    {"a", "b", "c", "d", "e", "f", "g", "h", "i", "j", "k", "l", "m",
     "n", "o", "p", "q", "r", "s", "t", "u", "v", "w", "x", "y", "z",
     "A", "B", "C", "D", "E", "F", "G", "H", "I", "J", "K", "L", "M",
     "N", "O", "P", "Q", "R", "S", "T", "U", "V", "W", "X", "Y", "Z"}

RECURSIVE CoordOf(_, _)
\* the Coord of the k-th scalar of s: Coords::default() advanced by inc over
\* the first k scalars
CoordOf(s, k) ==
    IF k = 0 THEN DefaultCoords
    ELSE Inc(CoordOf(s, k - 1), s[k] = "\n" \/ s[k] = "\r")

\* the tokens a number may follow in the inputs of the model
LeadIns ==
    { <<>>,
      <<"[">>,
      <<"{", "\"", "a", "\"", ":">>,
      <<"[", "1", ",", " ">> }

\* at index i0 the input holds digits (without a leading zero) followed by an
\* ASCII alphabetic scalar other than "e"/"E"
DigitsThenLetter(i0) ==
    /\ DigitRun(input, i0) >= 1
    /\ (DigitRun(input, i0) = 1 \/ input[i0] # "0")
    /\ At(input, i0 + DigitRun(input, i0)) \in AsciiAlphabetic \ {"e", "E"}

\* the error the claim gives for the digits at i0: the fragment runs from the
\* first digit to the letter, the coords are those of the letter
LetterError(i0) ==
    LexerError("InvalidNumericRepresentation",
               SubSeq(input, i0, i0 + DigitRun(input, i0)),
               CoordOf(input, i0 + DigitRun(input, i0)))

\* C16: digits followed by an ASCII alphabetic scalar other than "e"/"E" fail
\* with InvalidNumericRepresentation, whose fragment is the number read so far
\* with the offending scalar and whose coords are the Coord of that scalar; the
\* DOM and the SAX parser return this lexer error unchanged.
C16_LetterInNumber ==
    PairDone =>
        \A i0 \in 1..Len(input) :
            (SubSeq(input, 1, i0 - 1) \in LeadIns /\ DigitsThenLetter(i0)) =>
                /\ dres = ResErr(LetterError(i0))
                /\ sres = ResErr(LetterError(i0))

\* both parsers have run on three digits followed by letters, and failed with
\* the three digits and the first letter as the fragment
C16_Witness ==
    /\ PairDone
    /\ DigitsThenLetter(1)
    /\ DigitRun(input, 1) = 3
    /\ Len(input) > 4
    /\ dres.status = "err"
    /\ dres.err.frag = SubSeq(input, 1, 4)
    /\ sres.err.coords.column = 4

\* the scalars a backslash may be followed by, "u" apart
EscapeSuffixes == {"\"", "\\", "/", "b", "f", "n", "r", "t"}

FourHexAfter(s, i) == \A k \in 1..4 : At(s, i + k) \in AsciiHexDigit

RECURSIVE StrScan(_, _)
\* what decides a string read from index i on, after its opening quote, and
\* the index of the deciding scalar: the first unescaped quote ("closed"), a
\* backslash suffix that is no escape ("escape"), a "u" with four scalars
\* after it that are not all hex digits ("unicode"), or the end of the input
StrScan(s, i) ==
    IF At(s, i) = NoChar THEN [kind |-> "eof", at |-> i - 1]
    ELSE IF At(s, i) = "\"" THEN [kind |-> "closed", at |-> i]
    ELSE IF At(s, i) # "\\" THEN StrScan(s, i + 1)
    ELSE IF At(s, i + 1) = NoChar THEN [kind |-> "eof", at |-> i]
    ELSE IF At(s, i + 1) \in EscapeSuffixes THEN StrScan(s, i + 2)
    ELSE IF At(s, i + 1) # "u" THEN [kind |-> "escape", at |-> i + 1]
    ELSE IF At(s, i + 5) = NoChar THEN [kind |-> "eof", at |-> Len(s)]
    ELSE IF FourHexAfter(s, i + 1) THEN StrScan(s, i + 6)
    ELSE [kind |-> "unicode", at |-> i + 1]

\* the error details consume gives for what decides a string
StrScanDetails(kind) ==
    CASE kind = "escape" -> "InvalidEscapeSequence"
      [] kind = "unicode" -> "InvalidUnicodeEscapeSequence"
      [] kind = "eof" -> "EndOfInput"
      [] OTHER -> "None"

\* C17: the string matcher reads up to the first unescaped quote, a backslash
\* always taking the next scalar as its suffix: the token is the input up to
\* that quote; and consume fails with InvalidEscapeSequence exactly when the
\* first deciding scalar is a suffix other than the eight escapes and "u".
C17_StringEndsAtUnescapedQuote ==
    (toks # <<>> /\ At(input, 1) = "\"") =>
        /\ StrScan(input, 2).kind = "closed" =>
              /\ toks[1].kind = "tok"
              /\ toks[1].tok.t = "Str"
              /\ toks[1].tok.s = SubSeq(input, 1, StrScan(input, 2).at)
              /\ toks[1].span.end.absolute = StrScan(input, 2).at
        /\ StrScan(input, 2).kind = "escape" <=> FirstFails("InvalidEscapeSequence")

\* a Str token has been returned for a string that holds an escaped quote and
\* ends at the quote after a doubled backslash, with input left over
C17_Witness ==
    /\ toks # <<>>
    /\ toks[1].kind = "tok"
    /\ toks[1].tok.s = <<"\"", "\\", "\"", "\\", "\\", "\"">>
    /\ Len(input) > 6

\* C18 (as claimed): the fragment of InvalidEscapeSequence is the escape
\* sequence itself, the backslash and the invalid suffix.  The code gives the
\* whole buffer: see C18 in RESULTS.json.
C18_FragmentIsEscape ==
    (toks # <<>> /\ At(input, 1) = "\"" /\ FirstFails("InvalidEscapeSequence")) =>
        toks[1].err.frag = SubSeq(input, StrScan(input, 2).at - 1, StrScan(input, 2).at)

\* C18 (amended): the fragment of InvalidEscapeSequence is the scalars of the
\* string read so far, from the opening quote to the invalid suffix.
C18_FragmentIsStringSoFar ==
    (toks # <<>> /\ At(input, 1) = "\"" /\ FirstFails("InvalidEscapeSequence")) =>
        toks[1].err.frag = SubSeq(input, 1, StrScan(input, 2).at)

\* consume has failed on an invalid escape that comes after other scalars of
\* the string, a space and a valid escape among them
C18_Witness ==
    /\ toks # <<>>
    /\ At(input, 1) = "\""
    /\ FirstFails("InvalidEscapeSequence")
    /\ StrScan(input, 2).at >= 7
    /\ \E i \in 2..5 : input[i] = " "

RECURSIVE FirstUnicode(_, _)
\* the index of the "u" of the first unicode escape of a string read from
\* index i on, when nothing before it decides the string; 0 when there is none
FirstUnicode(s, i) ==
    IF At(s, i) \in {NoChar, "\""} THEN 0
    ELSE IF At(s, i) # "\\" THEN FirstUnicode(s, i + 1)
    ELSE IF At(s, i + 1) = "u" THEN i + 1
    ELSE IF At(s, i + 1) \in EscapeSuffixes THEN FirstUnicode(s, i + 2)
    ELSE 0

\* the unicode escape whose "u" is at index u is accepted: the string is read
\* on after its four digits, whatever decides it then
UnicodeAccepted(u) ==
    /\ toks[1].kind = "err" => toks[1].err.details = StrScanDetails(StrScan(input, u + 5).kind)
    /\ StrScan(input, u + 5).kind = "closed" =>
          /\ toks[1].kind = "tok"
          /\ toks[1].tok.s = SubSeq(input, 1, StrScan(input, u + 5).at)

\* C19 (as claimed): a unicode escape is accepted exactly when four ASCII hex
\* digits follow it, and in every other case, the end of the input among
\* them, consume fails with InvalidUnicodeEscapeSequence.  The code fails
\* with EndOfInput when the input ends: see C19 in RESULTS.json.
C19_UnicodeNeedsFourHex ==
    (toks # <<>> /\ At(input, 1) = "\"" /\ FirstUnicode(input, 2) # 0) =>
        IF FourHexAfter(input, FirstUnicode(input, 2))
        THEN UnicodeAccepted(FirstUnicode(input, 2))
        ELSE FirstFails("InvalidUnicodeEscapeSequence")

\* C19 (amended): a unicode escape is accepted exactly when the four scalars
\* after it are ASCII hex digits; when four scalars follow and one of them is
\* no hex digit (the closing quote included) consume fails with
\* InvalidUnicodeEscapeSequence, and when the input ends before four scalars
\* follow consume fails with EndOfInput.
C19_UnicodeNeedsFourScalars ==
    (toks # <<>> /\ At(input, 1) = "\"" /\ FirstUnicode(input, 2) # 0) =>
        IF FourHexAfter(input, FirstUnicode(input, 2))
        THEN UnicodeAccepted(FirstUnicode(input, 2))
        ELSE IF Len(input) >= FirstUnicode(input, 2) + 4
        THEN FirstFails("InvalidUnicodeEscapeSequence")
        ELSE FirstFails("EndOfInput")

\* consume has failed on a unicode escape with two hex digits before the
\* closing quote and two scalars after it
C19_Witness ==
    /\ toks # <<>>
    /\ Len(input) >= 8
    /\ SubSeq(input, 1, 3) = <<"\"", "\\", "u">>
    /\ input[4] \in AsciiHexDigit
    /\ input[5] \in AsciiHexDigit
    /\ input[6] = "\""
    /\ FirstFails("InvalidUnicodeEscapeSequence")

\* the scalars that are a token on their own
Punctuation == {"{", "}", "[", "]", ":", ","}

RECURSIVE SkipLead(_, _)
\* the index of the first scalar from i on that is neither whitespace nor
\* punctuation
SkipLead(s, i) ==
    IF At(s, i) \in AsciiWhitespace \cup Punctuation THEN SkipLead(s, i + 1) ELSE i

\* the number of punctuation tokens before index i
PunctuationBefore(s, i) == Cardinality({k \in 1..(i - 1) : s[k] \in Punctuation})

\* the text t ends inside a number: no scalar of it breaks a rule of the
\* number matcher, and no terminator or whitespace has been read
NumberCutShort(t) ==
    \/ t = <<"-">>
    \/ t = <<"-", "0">>
    \/ NumPrefixOk(t) /\ NumberFault(t) = "eof"

\* the text t ends inside a string, a number or a literal
CutShort(t) ==
    \/ At(t, 1) = "\"" /\ StrScan(t, 2).kind = "eof"
    \/ At(t, 1) \in AsciiDigit \cup {"-"} /\ NumberCutShort(t)
    \/ At(t, 1) \in {"n", "t"} /\ Len(t) < 4
    \/ At(t, 1) = "f" /\ Len(t) < 5

\* the input from its first scalar that is neither whitespace nor punctuation
LastLexeme == SubSeq(input, SkipLead(input, 1), Len(input))

\* C20: when the input ends inside a string, a number or a literal, the
\* consume that reads it returns the error EndOfInput, not a token, and the
\* error carries the Coord of the last scalar of the input.
C20_EndInsideToken ==
    (/\ CutShort(LastLexeme)
     /\ Len(toks) > PunctuationBefore(input, SkipLead(input, 1))) =>
        /\ toks[PunctuationBefore(input, SkipLead(input, 1)) + 1].kind = "err"
        /\ toks[PunctuationBefore(input, SkipLead(input, 1)) + 1].err =
               LexerError("EndOfInput", <<>>, CoordOf(input, Len(input)))

\* the third consume has failed with EndOfInput inside a token that holds a
\* backslash or an exponent, past the first line or column of the input
C20_Witness ==
    /\ Len(toks) = 3
    /\ CutShort(LastLexeme)
    /\ Len(LastLexeme) >= 3
    /\ toks[3].kind = "err"
    /\ toks[3].err.details = "EndOfInput"
    /\ toks[3].err.coords.absolute = Len(input)
    /\ toks[3].err.coords.absolute > Len(LastLexeme) + 2

-----------------------------------------------------------------------------
(* Claims about the end of the input, the literals, the roots, objects,    *)
(* arrays and the coordinates                                              *)

\* the last result of consume is the EndOfInput token
AtEndOfInput ==
    /\ toks # <<>>
    /\ Last(toks).kind = "tok"
    /\ Last(toks).tok.t = "EndOfInput"

\* C21: once consume has returned the EndOfInput token, the next call of
\* consume returns the EndOfInput token again, with the same coordinates as
\* both ends of its span, and leaves the coordinates and the push-back slot
\* of the lexer as they were
C21_EndOfInputStays ==
    [][AtEndOfInput =>
         /\ Last(toks).span.start = Last(toks).span.end
         /\ toks' = Append(toks, Last(toks))
         /\ lex'.coords = lex.coords
         /\ lex'.pushback = lex.pushback
         /\ lex'.pos = lex.pos]_vars

\* a number, then the EndOfInput token three times over, the first of them
\* after the pushed-back terminator of the number and trailing whitespace
C21_Witness ==
    /\ mode = "lexer"
    /\ Len(toks) = 4
    /\ toks[1].kind = "tok" /\ toks[1].tok.t \in {"Integer", "Float"}
    /\ toks[2].kind = "tok" /\ toks[2].tok.t = "EndOfInput"
    /\ toks[4].kind = "tok" /\ toks[4].tok.t = "EndOfInput"
    /\ toks[4].span.start.absolute > toks[1].span.end.absolute + 1

RECURSIVE SkipSpace(_, _)
\* the index of the first scalar of s from i on that is not whitespace
SkipSpace(s, i) == IF At(s, i) \in AsciiWhitespace THEN SkipSpace(s, i + 1) ELSE i

\* the index at which the lexeme of the i-th consume starts: the first
\* scalar that is not whitespace after the end of the token before it
LexemeStart(i) ==
    SkipSpace(input, (IF i = 1 THEN 0 ELSE toks[i - 1].span.end.absolute) + 1)

LiteralPattern(c) ==
    CASE c = "n" -> NULL_PATTERN
      [] c = "t" -> TRUE_PATTERN
      [] c = "f" -> FALSE_PATTERN

LiteralToken(c) ==
    CASE c = "n" -> Tok("Null")
      [] c = "t" -> BoolTok(TRUE)
      [] c = "f" -> BoolTok(FALSE)

\* the scalars the literal matcher reads for a lexeme that starts at index p
LiteralRead(p) == SubSeq(input, p, p + Len(LiteralPattern(input[p])) - 1)

\* the i-th result of consume is the one claimed for a literal at index p
LiteralResult(i, p) ==
    IF LiteralRead(p) = LiteralPattern(input[p])
    THEN /\ toks[i].kind = "tok"
         /\ toks[i].tok = LiteralToken(input[p])
         /\ toks[i].span = MkSpan(CoordOf(input, p),
                                  CoordOf(input, p + Len(LiteralRead(p)) - 1))
    ELSE /\ toks[i].kind = "err"
         /\ toks[i].err = [LexerError("MatchFailed", LiteralRead(p), CoordOf(input, p))
                           EXCEPT !.expected = LiteralPattern(input[p])]

\* a lexeme that starts at index p with 'n', 't' or 'f' and has the 3, 3 or
\* 4 further scalars in the input
LiteralAt(p) ==
    /\ At(input, p) \in {"n", "t", "f"}
    /\ p + Len(LiteralPattern(input[p])) - 1 <= Len(input)

\* C22: a lexeme that starts with 'n', 't' or 'f' and is followed by 3, 3 or
\* 4 more scalars is the token Null, Boolean(true) or Boolean(false) exactly
\* when these scalars, whitespace included, spell null, true or false, and the
\* error MatchFailed(pattern, scalars read) otherwise; the token ends at the
\* last scalar of the literal, so that the next lexeme starts right after it.
C22_LiteralMatch ==
    mode = "lexer" =>
        \A i \in 1..Len(toks) :
            LiteralAt(LexemeStart(i)) => LiteralResult(i, LexemeStart(i))

\* "true farse": a Boolean token and then MatchFailed(false, farse)
C22_Witness ==
    /\ mode = "lexer"
    /\ input = <<"t", "r", "u", "e", " ", "f", "a", "r", "s", "e">>
    /\ Len(toks) = 2
    /\ toks[1].kind = "tok" /\ toks[1].tok = BoolTok(TRUE)
    /\ toks[2].kind = "err" /\ toks[2].err.details = "MatchFailed"
    /\ toks[2].err.frag = <<"f", "a", "r", "s", "e">>

\* the first consume on the input returns a token that opens no container
RootIsNoContainer ==
    /\ FirstToken.kind = "tok"
    /\ FirstToken.tok.t \notin {"StartObject", "StartArray"}

\* where the first token of the input starts: at the first scalar that is
\* not whitespace, and for the EndOfInput token at the last scalar read
FirstTokenStart ==
    IF SkipSpace(input, 1) > Len(input)
    THEN CoordOf(input, Len(input))
    ELSE CoordOf(input, SkipSpace(input, 1))

\* C23: when the first token of the input is neither StartObject nor
\* StartArray, dom::Parser::parse and sax::Parser::parse fail with
\* InvalidRootObject at the start of the span of that token, and the callback
\* is not invoked.  (parse_str of the SAX front-end reaches parse for every
\* input that is not empty.)
C23_InvalidRootObject ==
    (RootIsNoContainer /\ mode \in {"pair", "cancel"}) =>
        /\ events = <<>>
        /\ dres.status # "idle" =>
               dres = ResErr(DomParserError("InvalidRootObject", NoTok, FirstTokenStart))
        /\ (sres.status # "idle" /\ input # <<>>) =>
               sres = ResErr(SaxParserError("InvalidRootObject", NoTok, FirstTokenStart))

\* both front-ends have failed on an input whose first token is a literal or
\* a string that starts after whitespace and spans several scalars
C23_Witness ==
    /\ PairDone
    /\ RootIsNoContainer
    /\ FirstToken.tok.t \in {"Null", "Str"}
    /\ FirstToken.span.start.absolute > 1
    /\ FirstToken.span.end.absolute > FirstToken.span.start.absolute
    /\ dres.status = "err" /\ dres.err.details = "InvalidRootObject"
    /\ sres.status = "err" /\ sres.err.details = "InvalidRootObject"
    /\ sres.err.coords = FirstToken.span.start

\* the result r of consume is a token that can neither start a member nor
\* separate two members nor close the object
BadKeyToken(r) == r.kind = "tok" /\ r.tok.t \notin {"Str", "Comma", "EndObject"}

\* the result r of consume is a key, and the next consume returns a token
\* that is not a Colon
KeyWithoutColon(r) ==
    /\ r.kind = "tok"
    /\ r.tok.t = "Str"
    /\ Consume(r.lx).kind = "tok"
    /\ Consume(r.lx).tok.t # "Colon"

\* an iteration of the loop of dom parse_object on a token that is no key, or
\* on a key without a colon
DomKeyPosition ==
    (phase = "dom" /\ dres.status = "running" /\ Last(dstack).fn = "object") =>
        /\ BadKeyToken(Consume(dlex)) =>
               dres' = ResErr(DomParserError("InvalidObject", NoTok,
                                             Consume(dlex).span.start))
        /\ KeyWithoutColon(Consume(dlex)) =>
               dres' = ResErr(DomParserError("PairExpected", NoTok,
                                             Consume(Consume(dlex).lx).span.start))

\* the same iteration of sax parse_object, with a callback that returns Ok
SaxKeyPosition ==
    (/\ phase = "sax" /\ mode = "pair"
     /\ sres.status = "running" /\ Last(sstack).fn = "object") =>
        /\ BadKeyToken(Consume(slex)) =>
               sres' = ResErr(SaxParserError("InvalidObject", NoTok,
                                             Consume(slex).span.start))
        /\ KeyWithoutColon(Consume(slex)) =>
               sres' = ResErr(SaxParserError("PairExpected", NoTok,
                                             Consume(Consume(slex).lx).span.start))

\* C24 (as claimed): in both front-ends an iteration of parse_object that
\* reads a token other than a String, a Comma or EndObject fails with
\* InvalidObject at the start of the span of that token, and one that reads a
\* key and then a token other than a Colon fails with PairExpected.  The SAX
\* parser fails with InvalidArray instead: see C24 in RESULTS.json.
C24_KeyPosition == [][DomKeyPosition /\ SaxKeyPosition]_vars

\* the result r of consume is the EndOfInput token: the input has ended
\* between two tokens
EndsBetweenTokens(r) == r.kind = "tok" /\ r.tok.t = "EndOfInput"

\* an iteration of the loop of dom parse_array is to be run
DomInArray == phase = "dom" /\ dres.status = "running" /\ Last(dstack).fn = "array"

\* an iteration of the loop of sax parse_array is to be run
SaxInArray == phase = "sax" /\ sres.status = "running" /\ Last(sstack).fn = "array"

\* C25 (as claimed): when the input ends inside an array that has not been
\* closed, the parse fails with the detail EndOfInput, carrying the final
\* Coord of the input.
C25_EndInArrayIsEndOfInput ==
    [][/\ (DomInArray /\ EndsBetweenTokens(Consume(dlex))) =>
              /\ dres'.status = "err"
              /\ dres'.err.details = "EndOfInput"
              /\ dres'.err.coords = CoordOf(input, Len(input))
       /\ (SaxInArray /\ EndsBetweenTokens(Consume(slex))) =>
              /\ sres'.status = "err"
              /\ sres'.err.details = "EndOfInput"
              /\ sres'.err.coords = CoordOf(input, Len(input))]_vars

\* C25 (amended): when the input ends inside an array that has not been
\* closed, after a complete token, the parse fails with the detail
\* InvalidArray, carrying the final Coord of the input.
C25_EndInArrayIsInvalidArray ==
    [][/\ (DomInArray /\ EndsBetweenTokens(Consume(dlex))) =>
              dres' = ResErr(DomParserError("InvalidArray", NoTok,
                                            CoordOf(input, Len(input))))
       /\ (SaxInArray /\ EndsBetweenTokens(Consume(slex))) =>
              sres' = ResErr(SaxParserError("InvalidArray", NoTok,
                                            CoordOf(input, Len(input))))]_vars

\* both front-ends have failed on "[1, 2," at the end of the input
C25_Witness ==
    /\ PairDone
    /\ input = <<"[", "1", ",", " ", "2", ",">>
    /\ dres.status = "err" /\ dres.err.details = "InvalidArray"
    /\ dres.err.coords.absolute = 6
    /\ sres.status = "err" /\ sres.err.details = "InvalidArray"
    /\ sres.err.coords.absolute = 6

\* C26: sax parse_str (and parse_bytes) on the empty input fails with
\* ZeroLengthInput at the Coord (absolute 0, line 1, column 0); no lexer has
\* made a consume call and no event has been delivered.  On every other input
\* the call goes on to the first consume and never fails with ZeroLengthInput.
C26_ZeroLengthInput ==
    (mode \in {"pair", "cancel"} /\ sres.status # "idle") =>
        IF input = <<>>
        THEN /\ sres = ResErr(SaxParserError("ZeroLengthInput", NoTok,
                                             [absolute |-> 0, line |-> 1, column |-> 0]))
             /\ slex = NewLexer
             /\ events = <<>>
        ELSE /\ sres.err.details # "ZeroLengthInput"
             /\ slex.calls >= 1

\* the SAX parse of the empty input has failed, after the DOM parse of it
\* failed with InvalidRootObject
C26_Witness ==
    /\ PairDone
    /\ input = <<>>
    /\ dres.status = "err" /\ dres.err.details = "InvalidRootObject"
    /\ sres.status = "err" /\ sres.err.details = "ZeroLengthInput"
    /\ slex.calls = 0

RECURSIVE InputKeys(_, _)
RECURSIVE KeyThen(_, _, _)
\* the keys of the input in the order of the text, from the result r of a
\* consume on, among the next n tokens: the texts of the String tokens that
\* a Colon token follows
InputKeys(r, n) ==
    IF n = 0 \/ r.kind # "tok" \/ r.tok.t = "EndOfInput" THEN <<>>
    ELSE IF r.tok.t = "Str" THEN KeyThen(r.tok.s, Consume(r.lx), n - 1)
    ELSE InputKeys(Consume(r.lx), n - 1)

KeyThen(s, r, n) ==
    IF n > 0 /\ r.kind = "tok" /\ r.tok.t = "Colon"
    THEN <<s>> \o InputKeys(Consume(r.lx), n - 1)
    ELSE InputKeys(r, n)

IsObjectKey(m) == m.t = "ObjectKey"

\* the texts of the ObjectKey matches of a sequence of matches
KeyNames(ms) == [i \in 1..Len(SelectSeq(ms, IsObjectKey)) |-> SelectSeq(ms, IsObjectKey)[i].s]

\* the indexes of the ObjectKey events of the members of the root object
RootKeyEvents == {i \in 1..Len(events) : EvKind(i) = "ObjectKey" /\ Opener(i) = 2}

\* C27: the pairs of the objects of the tree the DOM parser returns are, in
\* depth-first order, the keys of the tokens the parser has read, in the
\* order of the text, one pair for every occurrence of a key; the SAX parser delivers one ObjectKey
\* event for every occurrence, in the same order; and the list of the root
\* object has one pair for each ObjectKey event of its members, with the
\* key of that event.
C27_PairsInInputOrder ==
    PairDone =>
        /\ dres.status = "ok" =>
               KeyNames(Flatten(dvalue)) = InputKeys(FirstToken, dlex.calls)
        /\ sres.status = "ok" =>
               KeyNames(Matches(events)) = InputKeys(FirstToken, slex.calls)
        /\ (dres.status = "ok" /\ sres.status = "ok" /\ dvalue.t = "Object") =>
               /\ Len(dvalue.kids) = Cardinality(RootKeyEvents)
               /\ \A i \in RootKeyEvents :
                      dvalue.kids[Cardinality({j \in RootKeyEvents : j <= i})].key =
                          events[i].matched.s

\* both front-ends have succeeded on an object with the same key twice: the
\* tree holds both pairs, in the order of the input
C27_Witness ==
    /\ PairDone
    /\ dres.status = "ok" /\ sres.status = "ok"
    /\ dvalue.t = "Object"
    /\ Len(dvalue.kids) = 2
    /\ dvalue.kids[1].key = dvalue.kids[2].key
    /\ dvalue.kids[1].value.n = 1
    /\ dvalue.kids[2].value.n = 2
    /\ Cardinality(RootKeyEvents) = 2

\* C28 (as claimed): when the SAX parse has returned Ok, the last event
\* delivered to the callback is Match::EndOfInput, and no event before it is.
\* The parser never emits the event: see C28 in RESULTS.json.
C28_EndOfInputEvent ==
    (mode \in {"pair", "cancel"} /\ sres.status = "ok") =>
        /\ events # <<>>
        /\ EvKind(Len(events)) = "EndOfInput"
        /\ \A i \in 1..(Len(events) - 1) : EvKind(i) # "EndOfInput"

\* C29: over the tokens the successive consume calls return, the absolute
\* position never goes backwards: the span of a token starts no later than
\* it ends, and starts no earlier than the span of the token before it
\* ends, also after a number that has pushed its terminator back.
C29_CoordsNeverGoBack ==
    mode = "lexer" =>
        \A i \in 1..Len(toks) :
            toks[i].kind = "tok" =>
                /\ toks[i].span.start.absolute <= toks[i].span.end.absolute
                /\ i > 1 =>
                       toks[i].span.start.absolute >= toks[i - 1].span.end.absolute

\* a number, and then the token that starts with the terminator the number
\* has pushed back
C29_Witness ==
    /\ mode = "lexer"
    /\ Len(toks) >= 2
    /\ toks[1].kind = "tok" /\ toks[1].tok.t \in {"Integer", "Float"}
    /\ toks[1].span.end.absolute > toks[1].span.start.absolute
    /\ toks[2].kind = "tok" /\ toks[2].tok.t # "EndOfInput"
    /\ toks[2].span.start.absolute = toks[1].span.end.absolute + 1

RECURSIVE LastTerminator(_, _)
\* the index of the last line terminator of s before index p, or 0
LastTerminator(s, p) ==
    IF p <= 1 THEN 0
    ELSE IF s[p - 1] \in {"\n", "\r"} THEN p - 1
    ELSE LastTerminator(s, p - 1)

\* C30 (as claimed): the column of the start of a token is the number of
\* scalars of its line up to and including its first scalar: 1 for the
\* first scalar after a line terminator, and one more for each further
\* scalar of the line.  The lexer reports one more on every line but the
\* first: see C30 in RESULTS.json.
C30_ColumnCountsFromOne ==
    mode = "lexer" =>
        \A i \in 1..Len(toks) :
            (toks[i].kind = "tok" /\ toks[i].tok.t # "EndOfInput") =>
                toks[i].span.start.column =
                    LexemeStart(i) - LastTerminator(input, LexemeStart(i))

-----------------------------------------------------------------------------
(* Claims about the push-back slot, the spans of numbers, the coords of    *)
(* errors and the text after the root                                      *)

LineTerminators == {"\n", "\r"}

\* the number of line terminators among the first n scalars of s
TerminatorsIn(s, n) == Cardinality({k \in 1..n : s[k] \in LineTerminators})

\* the number of line terminators the lexer has read and does not hold in
\* its push-back slot
TerminatorsRead ==
    TerminatorsIn(input, lex.pos) - (IF lex.pushback \in LineTerminators THEN 1 ELSE 0)

\* C31 (as claimed): after any sequence of consume calls the line of the
\* lexer is 1 plus the number of line terminators, '\n' and '\r', among the
\* scalars it has read and does not hold in the push-back slot.  The lexer
\* counts a '\r' that ends a number twice: see C31 in RESULTS.json.
C31_LineCountsTerminators ==
    mode = "lexer" => lex.coords.line = 1 + TerminatorsRead

\* C32 (as claimed): consume and both parsers return a value or a
\* ParserError on every input and never abort: every fragment the number
\* matcher accepts is converted by the numeric parser.  The unwrap() of
\* parse_numeric panics on some accepted fragments: see C32 in RESULTS.json.
C32_NeverAborts ==
    /\ \A i \in 1..Len(toks) : toks[i].kind # "panic"
    /\ dres.status # "panic"
    /\ sres.status # "panic"

IsNumber(e) == e.kind = "tok" /\ e.tok.t \in {"Integer", "Float"}

\* the token of a numeric terminator
TerminatorToken(c) ==
    CASE c = "," -> "Comma"
      [] c = "]" -> "EndArray"
      [] c = "}" -> "EndObject"

\* the scalars the lexer has consumed are the first lex.pos scalars of the
\* input less the one in the slot, each counted once
SlotAccounts ==
    IF lex.pushback = NoChar
    THEN lex.coords.absolute = lex.pos
    ELSE /\ lex.pos >= 1
         /\ lex.pushback = input[lex.pos]
         /\ lex.coords.absolute = lex.pos - 1

\* the consume that gave the number toks[i] left its terminator in the slot
\* and out of the text of the number
NumberLeavesTerminator(i) ==
    /\ toks[i].span.end.absolute < Len(input)
    /\ input[toks[i].span.end.absolute + 1] \in NumberEnders
    /\ \A k \in toks[i].span.start.absolute .. toks[i].span.end.absolute :
           input[k] \notin NumberEnders
    /\ i = Len(toks) =>
           /\ lex.pushback = input[toks[i].span.end.absolute + 1]
           /\ lex.pos = toks[i].span.end.absolute + 1
           /\ lex.buffer = SubSeq(input, toks[i].span.start.absolute,
                                  toks[i].span.end.absolute)

\* the consume after the number toks[i] starts at the terminator: it gives
\* the token of a ',' ']' or '}', and skips a whitespace terminator
TerminatorComesNext(i) ==
    IF input[toks[i].span.end.absolute + 1] \in NumericTerminator
    THEN /\ toks[i + 1].kind = "tok"
         /\ toks[i + 1].tok.t = TerminatorToken(input[toks[i].span.end.absolute + 1])
         /\ toks[i + 1].span.start.absolute = toks[i].span.end.absolute + 1
    ELSE toks[i + 1].kind = "tok" /\ toks[i + 1].tok.t # "EndOfInput" =>
             toks[i + 1].span.start.absolute > toks[i].span.end.absolute + 1

\* C33: the scalar that ends a number is neither lost nor read twice.  The
\* scalars consumed are always the scalars pulled from the decoder less the
\* one in the push-back slot, and the slot holds the last scalar pulled;
\* after a number token the slot holds the terminator and the text of the
\* number is the input up to it, without it; the next consume starts at the
\* terminator ("1," gives the number then Comma, "1]" the number then
\* EndArray).
C33_TerminatorReadOnce ==
    mode = "lexer" =>
        /\ SlotAccounts
        /\ \A i \in 1..Len(toks) : IsNumber(toks[i]) =>
               /\ NumberLeavesTerminator(i)
               /\ i < Len(toks) => TerminatorComesNext(i)

\* a number that ']' ended has been followed by EndArray
C33_Witness ==
    /\ mode = "lexer"
    /\ Len(toks) >= 3
    /\ IsNumber(toks[2])
    /\ toks[2].tok.n = 12
    /\ toks[3].kind = "tok" /\ toks[3].tok.t = "EndArray"
    /\ lex.pushback = NoChar

\* the span of the number toks[i] starts at a sign or a digit that no scalar
\* of a number precedes, and ends before the scalar that ends the number
NumberSpanIndexes(i) ==
    /\ toks[i].span.start.absolute >= 1
    /\ input[toks[i].span.start.absolute] \in AsciiDigit \cup {"-"}
    /\ toks[i].span.start.absolute > 1 =>
           input[toks[i].span.start.absolute - 1] \notin AsciiDigit \cup {"-", "+", ".", "e", "E"}
    /\ toks[i].span.end.absolute >= toks[i].span.start.absolute
    /\ toks[i].span.end.absolute < Len(input)
    /\ input[toks[i].span.end.absolute + 1] \in NumberEnders
    /\ \A k \in toks[i].span.start.absolute .. toks[i].span.end.absolute :
           input[k] \notin NumberEnders

\* the end of the span of toks[i] is the Coord the lexer had at the last
\* scalar of the number: no scalar of a number is a line terminator, so it
\* is on the line of the first scalar, as many columns on as scalars
NumberSpanEnd(i) ==
    toks[i].span.end =
        IncN(toks[i].span.start,
             toks[i].span.end.absolute - toks[i].span.start.absolute)

\* C34 (as claimed): the span of a number token runs from the Coord of its
\* first scalar to the Coord of its last accepted scalar, absolute, line and
\* column, whichever scalar ends the number.  The lexer gives another line
\* or column to the end when a line terminator ends the number: see C34 in
\* RESULTS.json.
C34_NumberSpan ==
    mode = "lexer" =>
        \A i \in 1..Len(toks) : IsNumber(toks[i]) =>
            NumberSpanIndexes(i) /\ NumberSpanEnd(i)

\* the last consume failed in the lexer with these details
LexerFailed(details) ==
    /\ mode = "lexer"
    /\ toks # <<>>
    /\ Last(toks).kind = "err"
    /\ Last(toks).err.details = details

\* the number of the scalars of s that are in the set cs
CountIn(s, cs) == Cardinality({k \in 1..Len(s) : s[k] \in cs})

\* the index in the input of the first scalar that is no hex digit among
\* the four a failed check_unicode_sequence has read
FirstNonHex ==
    CHOOSE k \in lex.pos - 3 .. lex.pos :
        /\ input[k] \notin AsciiHexDigit
        /\ \A j \in lex.pos - 3 .. k - 1 : input[j] \in AsciiHexDigit

\* the Coord the lexer had at the scalar of index k, when it has read on to
\* lex.pos along one line since
CoordBack(k) ==
    [absolute |-> k, line |-> lex.coords.line,
     column |-> lex.coords.column - (lex.pos - k)]

\* C35 (as claimed): a lexer error raised inside a string or a number
\* carries the Coord of the scalar at which it was detected:
\* InvalidEscapeSequence the Coord of the invalid escape suffix, which is
\* the last scalar read; InvalidUnicodeEscapeSequence the Coord of the first
\* of the four scalars that is no hex digit; InvalidNumericRepresentation
\* for a second '.' or a second exponent the Coord of that scalar, the last
\* read.  The lexer computes these Coords from the start of the lexeme: see
\* C35 in RESULTS.json.
C35_ErrorAtDetection ==
    /\ LexerFailed("InvalidEscapeSequence") => Last(toks).err.coords = lex.coords
    /\ (/\ LexerFailed("InvalidUnicodeEscapeSequence")
        /\ \A k \in lex.pos - 3 .. lex.pos : input[k] \notin LineTerminators) =>
           Last(toks).err.coords = CoordBack(FirstNonHex)
    /\ (/\ LexerFailed("InvalidNumericRepresentation")
        /\ \/ Last(lex.buffer) = "." /\ CountIn(lex.buffer, {"."}) = 2
           \/ Last(lex.buffer) \in {"e", "E"} /\ CountIn(lex.buffer, {"e", "E"}) = 2) =>
           Last(toks).err.coords = lex.coords

RECURSIVE RootClose(_, _)
\* the lexer after the consume that gave the token closing the container
\* that the first token opens, from the result r of a consume on, depth
\* containers being open; the new lexer when no token closes it
RootClose(r, depth) ==
    IF r.kind # "tok" \/ r.tok.t = "EndOfInput" THEN NewLexer
    ELSE IF r.tok.t \in {"StartObject", "StartArray"}
    THEN RootClose(Consume(r.lx), depth + 1)
    ELSE IF r.tok.t \in {"EndObject", "EndArray"}
    THEN IF depth = 1 THEN r.lx ELSE RootClose(Consume(r.lx), depth - 1)
    ELSE RootClose(Consume(r.lx), depth)

\* the lexer lx of a front-end has not gone beyond the token that closes
\* the root, whatever the front-end has made of the tokens up to it; rc is
\* the lexer after the consume of that token
NotBeyondRoot(lx, rc) ==
    rc # NewLexer => (lx.calls <= rc.calls /\ lx.pos <= rc.pos)

\* the lexer lx of a parse that has succeeded is the lexer rc
StoppedAtRoot(lx, rc) ==
    /\ lx = rc
    /\ lx.pushback = NoChar
    /\ input[lx.pos] \in {"]", "}"}

\* the parses of a run have stopped at the close of the root
NothingAfterRoot(rc) ==
    /\ NotBeyondRoot(dlex, rc)
    /\ NotBeyondRoot(slex, rc)
    /\ dres.status = "ok" => StoppedAtRoot(dlex, rc)
    /\ sres.status = "ok" =>
           /\ StoppedAtRoot(slex, rc)
           /\ Last(events).matched.t \in EndKinds
           /\ Opener(Len(events)) = 2

\* C36: both front-ends return as soon as the token closing the root
\* container has been consumed.  When a parse has succeeded its lexer is the
\* lexer as that consume left it: the last scalar pulled is the closing
\* bracket, the slot is empty and no further consume was made; the last
\* event is the End event of the root, whose Start event is the second
\* event, after StartOfInput; and at the end of no run, failed and cancelled
\* parses included, has a lexer gone beyond the close of the root, so that
\* no scalar after it is read, reported or made part of the result.
C36_NothingAfterRoot ==
    (mode \in {"pair", "cancel"} /\ phase = "done") =>
        NothingAfterRoot(RootClose(FirstToken, 0))

\* both parses of a root that text follows have succeeded, and the text
\* after the closing bracket has not been pulled from the decoder
C36_Witness ==
    /\ PairDone
    /\ dres.status = "ok" /\ sres.status = "ok"
    /\ dlex.pos < Len(input) /\ slex.pos < Len(input)
    /\ input[Len(input)] \notin AsciiWhitespace
    /\ dvalue.t = "Array" /\ Len(dvalue.kids) = 1

RECURSIVE LaxValue(_)
RECURSIVE LaxElements(_)
RECURSIVE LaxMembers(_)
RECURSIVE LaxNext(_, _)
\* The token streams in which the Comma tokens at the boundaries of members
\* and elements are taken out: array = '[' value* ']', object =
\* '{' (Str ':' value)* '}', with any number of Comma tokens before, between
\* and after the values and members.  Each recogniser takes the result r of
\* the consume of the first token and gives the lexer after the last token,
\* or the new lexer when the tokens are not of this form.
LaxValue(r) ==
    IF r.kind # "tok" THEN NewLexer
    ELSE IF r.tok.t \in ScalarTokens THEN r.lx
    ELSE IF r.tok.t = "StartArray" THEN LaxElements(Consume(r.lx))
    ELSE IF r.tok.t = "StartObject" THEN LaxMembers(Consume(r.lx))
    ELSE NewLexer

\* the rest of a container of the kind fn after a value that ended with lx
LaxNext(lx, fn) ==
    IF lx = NewLexer THEN NewLexer
    ELSE IF fn = "array" THEN LaxElements(Consume(lx))
    ELSE LaxMembers(Consume(lx))

LaxElements(r) ==
    IF r.kind # "tok" THEN NewLexer
    ELSE IF r.tok.t = "EndArray" THEN r.lx
    ELSE IF r.tok.t = "Comma" THEN LaxElements(Consume(r.lx))
    ELSE LaxNext(LaxValue(r), "array")

\* the value of a member, from the result c of the consume after the key
LaxMember(c) ==
    IF c.kind = "tok" /\ c.tok.t = "Colon"
    THEN LaxNext(LaxValue(Consume(c.lx)), "object")
    ELSE NewLexer

LaxMembers(r) ==
    IF r.kind # "tok" THEN NewLexer
    ELSE IF r.tok.t = "EndObject" THEN r.lx
    ELSE IF r.tok.t = "Comma" THEN LaxMembers(Consume(r.lx))
    ELSE IF r.tok.t = "Str" THEN LaxMember(Consume(r.lx))
    ELSE NewLexer

RECURSIVE TokenMatches(_, _)
RECURSIVE StrThen(_, _, _)
\* the tokens of the input less the Comma and Colon tokens, as matches, from
\* the result r of a consume on to the token that closes the root, depth
\* containers being open; a Str token before a Colon is an ObjectKey
TokenMatches(r, depth) ==
    IF r.kind # "tok" \/ r.tok.t = "EndOfInput" THEN <<>>
    ELSE IF r.tok.t \in {"StartObject", "StartArray"}
    THEN <<Match(r.tok.t)>> \o TokenMatches(Consume(r.lx), depth + 1)
    ELSE IF r.tok.t \in {"EndObject", "EndArray"}
    THEN <<Match(r.tok.t)>>
         \o (IF depth = 1 THEN <<>> ELSE TokenMatches(Consume(r.lx), depth - 1))
    ELSE IF r.tok.t \in {"Comma", "Colon"} THEN TokenMatches(Consume(r.lx), depth)
    ELSE IF r.tok.t = "Str" THEN StrThen(r.tok, Consume(r.lx), depth)
    ELSE <<ScalarMatch(r.tok)>> \o TokenMatches(Consume(r.lx), depth)

StrThen(tok, r, depth) ==
    IF r.kind = "tok" /\ r.tok.t = "Colon"
    THEN <<ObjectKeyMatch(tok.s)>> \o TokenMatches(Consume(r.lx), depth)
    ELSE <<ScalarMatch(tok)>> \o TokenMatches(r, depth)

-----------------------------------------------------------------------------
(* Claims about the operations of JsonPointer and about the Scanner        *)

\* the pointer after the call op on the pointer p
ApplyCall(op, p) ==
    CASE op.op = "push_name" -> PushName(p, op.name)
      [] op.op = "push_index" -> PushIndex(p, op.index)
      [] op.op = "pop" -> Pop(p)

RECURSIVE Replay(_)
\* the pointer after the first n calls of the log
Replay(n) == IF n = 0 THEN EmptyPointer ELSE ApplyCall(ptrlog[n], Replay(n - 1))

\* as_str(), len() and is_empty() do not tell the pointers p and q apart
SameToCaller(p, q) ==
    /\ AsStr(p) = AsStr(q)
    /\ PtrLen(p) = PtrLen(q)
    /\ IsEmpty(p) = IsEmpty(q)

\* C38 (as claimed): a push_name or push_index followed by a pop restores
\* the pointer: as_str(), len() and is_empty() are as before the push; so n
\* pushes on the empty pointer and n pops give the empty pointer again; and
\* a pop on the empty pointer leaves it empty.  The first push on the empty
\* pointer adds a Root component that no pop of the pair removes: see C38 in
\* RESULTS.json.
C38_PushPopRestores ==
    mode = "pointer" =>
        \A i \in 1..Len(ptrlog) :
            /\ (i > 1 /\ ptrlog[i].op = "pop" /\ ptrlog[i - 1].op # "pop") =>
                   SameToCaller(Replay(i), Replay(i - 2))
            /\ (ptrlog[i].op = "pop" /\ IsEmpty(Replay(i - 1))) => IsEmpty(Replay(i))

\* C39 (as claimed): the serialisation of self + &rhs is the serialisation
\* of self followed by the serialisation of rhs ("/a" + "/b" is "/a/b"),
\* and an empty operand leaves the serialisation of the other as it is.  The
\* Root component of rhs is pushed with the others and gives an empty
\* segment: see C39 in RESULTS.json.
C39_AddConcatenates ==
    [][(mode = "add" /\ ptrlog = <<>> /\ ptrlog' # <<>>) =>
           /\ AsStr(ptr') = AsStr(ptr) \o AsStr(rhs)
           /\ IsEmpty(rhs) => AsStr(ptr') = AsStr(ptr)
           /\ IsEmpty(ptr) => AsStr(ptr') = AsStr(rhs)]_vars

RECURSIVE TakenUpTo(_)
\* the lexemes that the first n calls have taken out of the scanner
TakenUpTo(n) == IF n = 0 THEN <<>> ELSE TakenUpTo(n - 1) \o scanned[n].taken

IsInputLexeme(pl) == pl.lexeme.l # "EndOfInput"

\* the lexemes of the input taken out of the scanner so far, then the
\* lexemes in its buffer
LexemeStream == SelectSeq(TakenUpTo(Len(scanned)), IsInputLexeme) \o scanner.buffer

\* the index of the last line feed among the first k scalars, 0 without one
LastLineFeed(k) ==
    IF \E j \in 1..k : input[j] = "\n"
    THEN CHOOSE j \in 1..k : input[j] = "\n" /\ \A i \in j + 1 .. k : input[i] # "\n"
    ELSE 0

\* the coords at which scalar k of the input is read: a line feed is at
\* column 0 of the line it opens
CoordsAt(k) ==
    [absolute |-> k,
     line |-> 1 + Cardinality({j \in 1..k : input[j] = "\n"}),
     column |-> k - LastLineFeed(k)]

\* the lexemes taken and buffered are lexemes of the input in the order of
\* the input, each once, with the coords at which it was read, and the
\* scalars the decoder has yielded that are not among them are whitespace
StreamInOrder ==
    /\ \A i \in 1..Len(LexemeStream) :
           /\ LexemeStream[i].coords.absolute \in 1..scanner.pos
           /\ LexemeStream[i].coords = CoordsAt(LexemeStream[i].coords.absolute)
           /\ LexemeStream[i].lexeme = LexemeOfChar(input[LexemeStream[i].coords.absolute])
           /\ i > 1 => LexemeStream[i - 1].coords.absolute < LexemeStream[i].coords.absolute
    /\ \A k \in 1..scanner.pos :
           \/ IsWhitespace(input[k])
           \/ \E i \in 1..Len(LexemeStream) : LexemeStream[i].coords.absolute = k
    /\ \A i \in 2..Len(TakenUpTo(Len(scanned))) :
           IsInputLexeme(TakenUpTo(Len(scanned))[i]) =>
               IsInputLexeme(TakenUpTo(Len(scanned))[i - 1])

\* the last call, a lookahead, gave the lexeme of the buffer at its count,
\* or failed with the input at its end and fewer lexemes in the buffer
LookaheadAnswers(e) ==
    IF e.ok
    THEN /\ Len(scanner.buffer) >= e.count
         /\ e.lex = scanner.buffer[e.count]
         /\ scanner.front_coords = scanner.buffer[1].coords
    ELSE /\ Len(scanner.buffer) < e.count
         /\ scanner.pos = Len(input)

\* the last call, a consume, gave a lexeme; the EndOfInput lexeme when and
\* only when nothing was buffered and the input was at its end
ConsumeAnswers(e) ==
    /\ e.ok
    /\ ~IsInputLexeme(e.lex) =>
           /\ scanner.buffer = <<>>
           /\ scanner.pos = Len(input)
           /\ e.lex.coords = scanner.back_coords

\* C40: lookahead(n) for n >= 1 never consumes.  After any sequence of
\* calls the lexemes that consume (and discard) have taken out, followed by
\* the lexemes buffered by lookahead, are the lexemes of the input in input
\* order, each once and with the coords at which it was read, so that the
\* next consume returns the first lexeme not yet consumed; back_coords are
\* the coords of the last scalar read; lookahead(n) returns lexeme n of the
\* buffer, or an error when fewer than n lexemes remain, and the buffer
\* keeps what it held; consume returns EndOfInput at the end of the input.
C40_LookaheadNeverConsumes ==
    mode = "scanner" =>
        /\ StreamInOrder
        /\ scanner.back_coords = (IF scanner.pos = 0 THEN DefaultCoords
                                  ELSE CoordsAt(scanner.pos))
        /\ (scanned # <<>> /\ Last(scanned).op = "lookahead") =>
               LookaheadAnswers(Last(scanned))
        /\ (scanned # <<>> /\ Last(scanned).op = "consume") =>
               ConsumeAnswers(Last(scanned))

\* after lookahead(4) on "123456789" the back coords have column 4 and the
\* consume that followed returned the digit 1 at column 1
C40_Witness ==
    /\ mode = "scanner"
    /\ input = <<"1", "2", "3", "4", "5", "6", "7", "8", "9">>
    /\ Len(scanned) = 2
    /\ scanned[1].op = "lookahead" /\ scanned[1].count = 4 /\ scanned[1].ok
    /\ scanned[2].op = "consume"
    /\ scanned[2].lex.lexeme = [l |-> "Digit", c |-> "1"]
    /\ scanned[2].lex.coords.column = 1
    /\ scanner.back_coords.column = 4
    /\ Len(scanner.buffer) = 3

====
